---------------------------- MODULE Spec2Model ----------------------------
(***************************************************************************)
(* Per-frame scene preparation of one rendering layer                      *)
(* (QSSGLayerRenderData, src/runtimerender/rendererimpl/                   *)
(* qssglayerrenderdata.cpp): node classification, camera resolution, light *)
(* and shadow allocation, model / particle preparation, render-list        *)
(* sorting and pass scheduling.                                            *)
(*                                                                         *)
(* Conventions.                                                            *)
(*  - A node is a number; 0 is the layer (and the null pointer wherever a  *)
(*    node pointer is optional).                                           *)
(*  - Space is one-dimensional: a transform is a translation along the     *)
(*    view axis, a camera direction is +1 or -1.                           *)
(*  - Opacities are integers in thousandths (1000 is 1.0).                 *)
(*  - A QVector is a sequence; index i of the code is index i + 1 here.    *)
(***************************************************************************)
EXTENDS Integers, Sequences, FiniteSets, TLC

(***************************************************************************)
(* Budgets of the light and shadow allocator.  The three macros are set in *)
(* headers of the runtime-render module that are not among the files under *)
(* src/; the values are the ones those headers give.                       *)
(***************************************************************************)
QSSG_MAX_NUM_LIGHTS == 15

QSSG_REDUCED_MAX_NUM_LIGHTS == 5

QSSG_MAX_NUM_SHADOW_MAPS == 8

\* 0.01 in thousandths
QSSG_RENDER_MINIMUM_RENDER_OPACITY == 10

REDUCED_MAX_LIGHT_COUNT_THRESHOLD_BYTES == 4096

\* How many changes the front end makes to the scene in one behaviour.
MaxEdits == 2

(***************************************************************************)
(* The scene graph the layer is given.  Topology, node kinds and authored  *)
(* properties are fixed; what the front end changes at run time (activity  *)
(* flags, the explicit camera, layer settings) is state.                   *)
(***************************************************************************)
NullMaterial == [type |-> "None"]

Material(type, opacity, blendMode, opacityMap, alphaMode, transmission, depthBiasSq) ==
    [type |-> type, opacity |-> opacity, blendMode |-> blendMode,
     opacityMap |-> opacityMap, alphaMode |-> alphaMode,
     transmission |-> transmission, depthBiasSq |-> depthBiasSq,
     renderFlags |-> {}, depthDrawMode |-> "OpaqueOnly"]

CustomMaterial(renderFlags) ==
    [type |-> "CustomMaterial", opacity |-> 1000, blendMode |-> "SourceOver",
     opacityMap |-> FALSE, alphaMode |-> "Default", transmission |-> FALSE,
     depthBiasSq |-> 0, renderFlags |-> renderFlags, depthDrawMode |-> "OpaqueOnly"]

\* A material with its depthDrawMode property set.
withDepthDrawMode(material, mode) == [material EXCEPT !.depthDrawMode = mode]

MatOpaque == Material("PrincipledMaterial", 1000, "SourceOver", FALSE, "Default", FALSE, 0)

MatHalf == Material("DefaultMaterial", 500, "SourceOver", FALSE, "Default", FALSE, 3)

MatInvisible == Material("PrincipledMaterial", 5, "SourceOver", FALSE, "Default", FALSE, 0)

MatBlend == Material("SpecularGlossyMaterial", 1000, "SourceOver", FALSE, "Blend", FALSE, 0)

MatTransmission == Material("PrincipledMaterial", 1000, "SourceOver", FALSE, "Default", TRUE, 0)

\* A mesh as the buffer manager returns it: the centers of its subsets'
\* bounds, which reach 1 to either side of the center.  <<>> is a mesh
\* without subsets.
NoMesh == [loaded |-> FALSE, subsets |-> <<>>, extent |-> 0]

Mesh(centers) == [loaded |-> TRUE, subsets |-> centers, extent |-> 1]

Transform(parent, pos) ==
    [type |-> "Node", parent |-> parent, pos |-> pos, opacity |-> 1000]

Camera(parent, pos, dir) ==
    [type |-> "PerspectiveCamera", parent |-> parent, pos |-> pos, opacity |-> 1000,
     direction |-> dir]

Model(parent, pos, opacity, mesh, materials, hasTransparency) ==
    [type |-> "Model", parent |-> parent, pos |-> pos, opacity |-> opacity,
     mesh |-> mesh, materials |-> materials, hasTransparency |-> hasTransparency,
     receivesShadows |-> TRUE, receivesReflections |-> TRUE]

Particles(parent, pos, opacity, hasTransparency, particleCount) ==
    [type |-> "Particles", parent |-> parent, pos |-> pos, opacity |-> opacity,
     hasTransparency |-> hasTransparency, particleCount |-> particleCount]

Item2D(parent, zOrder) ==
    [type |-> "Item2D", parent |-> parent, pos |-> 0, opacity |-> 1000, zOrder |-> zOrder]

\* A reflection probe with its box (boxSize, boxOffset) and whether it has a
\* baked texture.
BoxProbe(parent, pos, boxSize, boxOffset, texture) ==
    [type |-> "ReflectionProbe", parent |-> parent, pos |-> pos, opacity |-> 1000,
     boxSize |-> boxSize, boxOffset |-> boxOffset, texture |-> texture]

Probe(parent, pos) == BoxProbe(parent, pos, 4, 0, FALSE)

\* A model that receives no reflections.
withoutReflections(model) == [model EXCEPT !.receivesReflections = FALSE]

Light(type, parent, enabled, castShadow, fullyBaked, scope) ==
    [type |-> type, parent |-> parent, pos |-> 0, opacity |-> 1000,
     enabled |-> enabled, castShadow |-> castShadow, fullyBaked |-> fullyBaked,
     scope |-> scope]

\* Shorthands for the lights of the scene: E casts shadows, B casts shadows
\* but is fully baked, N casts none, Off has no brightness.
E(parent) == Light("DirectionalLight", parent, TRUE, TRUE, FALSE, 0)

B(parent) == Light("PointLight", parent, TRUE, TRUE, TRUE, 0)

N(parent) == Light("SpotLight", parent, TRUE, FALSE, FALSE, 0)

Off(parent) == Light("PointLight", parent, FALSE, TRUE, FALSE, 0)

\* Nodes are numbered in depth-first (document) order; the children of a
\* node are kept in increasing number.
SceneGraph ==
    << Camera(0, 0, 1),                                          \*  1 camera
       Transform(0, 1),                                          \*  2 group A
       Model(2, 5, 1000, Mesh(<<0>>), <<MatOpaque>>, FALSE),     \*  3
       Model(2, 1, 1000, Mesh(<<0>>), <<MatHalf>>, FALSE),       \*  4
       Camera(2, 9, -1),                                         \*  5 camera in A
       Light("PointLight", 2, TRUE, TRUE, FALSE, 2),             \*  6 scoped to A
       Particles(2, 7, 1000, TRUE, 4),                           \*  7
       Item2D(2, 1),                                             \*  8
       Item2D(2, 0),                                             \*  9
       Transform(2, 2),                                          \* 10 subgroup of A
       withoutReflections(
           Model(10, 3, 400, Mesh(<<0>>),
                 <<withDepthDrawMode(MatOpaque, "Always")>>, FALSE)),    \* 11 faded node
       Item2D(10, 0),                                            \* 12
       Transform(0, 0),                                          \* 13 group B
       Model(13, 4, 1000, Mesh(<<0>>),
             <<withDepthDrawMode(CustomMaterial({"AoTexture"}), "Never")>>,
             FALSE),                                             \* 14
       Model(13, 3, 1000, Mesh(<<0, 1, 2, 3>>),
             <<MatTransmission, NullMaterial,
               withDepthDrawMode(MatOpaque, "OpaquePrePass")>>, FALSE),   \* 15
       Particles(13, 1, 1000, FALSE, 2),                         \* 16
       Probe(13, 4),                                             \* 17
       Model(13, 2, 1000, Mesh(<<0>>), <<MatOpaque>>, FALSE),    \* 18 mesh not loadable at first
       Model(13, 2, 1000, Mesh(<<0, 1>>), <<>>, FALSE),          \* 19 no materials
       Model(13, 9, 1000, Mesh(<<0, 0>>),
             <<MatInvisible, withDepthDrawMode(MatBlend, "OpaquePrePass")>>,
             FALSE),                                             \* 20
       Particles(13, 2, 0, TRUE, 3),                             \* 21 opacity 0
       Model(13, 7, 1000, Mesh(<<0>>),
             <<withDepthDrawMode(CustomMaterial({"ScreenTexture", "Blending"}),
                                 "Always")>>, FALSE),            \* 22
       Transform(0, 0),                                          \* 23 the lights
       Transform(23, 0),                                         \* 24 light group 1
       E(24), Off(24), E(24), B(24), E(24),                      \* 25 .. 29
       Transform(23, 0),                                         \* 30 light group 2
       E(30), E(30), N(30), E(30), E(30), E(30),                 \* 31 .. 36
       Transform(23, 0),                                         \* 37 light group 3
       E(37), N(37), E(37), B(37), N(37),
       Light("SpotLight", 37, TRUE, TRUE, FALSE, 13), E(37),     \* 38 .. 44, 43 scoped to B
       Transform(0, 6),                                          \* 45 overlay group
       Item2D(45, 1),                                            \* 46
       Item2D(45, 1),                                            \* 47
       Transform(45, 0),                                         \* 48 nested, same place
       Item2D(48, 0),                                            \* 49
       Item2D(45, 2),                                            \* 50
       Transform(45, 0),                                         \* 51 nested, same place
       Item2D(51, 0),                                            \* 52
       BoxProbe(0, 2, 8, 1, FALSE),                              \* 53 wide box around 3
       BoxProbe(0, 6, 2, 0, FALSE),                              \* 54 box around 6
       BoxProbe(0, 2, 2, 0, FALSE),                              \* 55 box around 2
       BoxProbe(0, 50, 2, 0, TRUE),                              \* 56 baked, far away
       BoxProbe(0, 60, 2, 0, FALSE)                              \* 57 far away
    >>

NumNodes == Len(SceneGraph)

Nodes == 1 .. NumNodes

LayerId == 0

Parent(n) == SceneGraph[n].parent

\* node.children, in order
Children(n) == SelectSeq([i \in Nodes |-> i], LAMBDA c : Parent(c) = n)

isCamera(type) == type \in {"PerspectiveCamera", "OrthographicCamera", "CustomCamera"}

isLight(type) == type \in {"DirectionalLight", "PointLight", "SpotLight"}

isRenderable(type) == type \in {"Model", "Particles", "Item2D"}

CameraNodes == {n \in Nodes : isCamera(SceneGraph[n].type)}

\* The nodes whose own activity flag the front end switches.
Switchable == {1, 2, 13, 23, 30, 37}

VARIABLES
    nodes,          \* per node: its flags and cached global values
    layer,          \* QSSGRenderLayer: settings and renderedCamera
    rhi,            \* what the graphics context reports
    edits,          \* changes the front end has made so far
    unresolvedMeshes,   \* the models whose mesh the buffer manager cannot load yet
    shaderLibrary,  \* QSSGShaderLibraryManager: m_lock, m_expandedFiles, the calls under way
    layerPrepResult,
    renderableModels, renderableParticles, renderableItem2Ds,
    cameras, lights, reflectionProbes,
    camera, cameraData, features,
    globalLights,
    frameObjects,   \* the per-frame allocator's renderable records
    opaqueObjects, transparentObjects, screenTextureObjects,
    modelContexts, activePasses,
    renderedOpaqueObjects, renderedTransparentObjects,
    renderedScreenTextureObjects, renderedItem2Ds,
    renderedDepthWriteObjects, renderedOpaqueDepthPrepassObjects,
    warnings,       \* tooManyLightsWarningShown, tooManyShadowLightsWarningShown
    locals,         \* locals of the last prepareForRender that ran
    ret             \* the last call on the layer data and what it returned

\* What the render context holds besides the layer data.
contextVars == <<rhi, unresolvedMeshes, shaderLibrary>>

sceneVars == <<nodes, layer, contextVars, edits>>

classifiedVars == <<renderableModels, renderableParticles, renderableItem2Ds,
                    cameras, lights, reflectionProbes>>

bucketVars == <<frameObjects, opaqueObjects, transparentObjects, screenTextureObjects,
                modelContexts>>

renderedVars == <<renderedOpaqueObjects, renderedTransparentObjects,
                  renderedScreenTextureObjects, renderedItem2Ds,
                  renderedDepthWriteObjects, renderedOpaqueDepthPrepassObjects>>

prepVars == <<layerPrepResult, camera, cameraData, features, globalLights,
              activePasses, warnings, locals>>

dataVars == <<classifiedVars, bucketVars, renderedVars, prepVars>>

vars == <<sceneVars, dataVars, ret>>

(***************************************************************************)
(* QSSGRenderNode: dirty propagation and global values.                    *)
(***************************************************************************)
RECURSIVE markDirty(_, _)
RECURSIVE markChildrenDirty(_, _)
\* QSSGRenderNode::markDirty(GlobalValuesDirty): a node not yet marked is
\* marked together with its subtree.
markDirty(nd, n) ==
    IF nd[n].dirty THEN nd
    ELSE markChildrenDirty([nd EXCEPT ![n].dirty = TRUE], Children(n))

\* The loop over the children, cut in halves to keep the evaluation shallow.
markChildrenDirty(nd, cs) ==
    IF cs = <<>> THEN nd
    ELSE IF Len(cs) = 1 THEN markDirty(nd, cs[1])
    ELSE LET half == Len(cs) \div 2
             nd1 == markChildrenDirty(nd, SubSeq(cs, 1, half))
         IN markChildrenDirty(nd1, SubSeq(cs, half + 1, Len(cs)))

\* The node's global values from its own local ones and its parent's global
\* ones; np is the node table with the parent p up to date.  A child of the
\* layer takes its local values.
composeGlobals(np, n, p) ==
    [np EXCEPT ![n] =
        [@ EXCEPT !.dirty = FALSE,
                  !.globalActive = np[n].active /\ (p = LayerId \/ np[p].globalActive),
                  !.globalPos = SceneGraph[n].pos + (IF p = LayerId THEN 0 ELSE np[p].globalPos),
                  !.globalOpacity =
                      IF p = LayerId THEN SceneGraph[n].opacity
                      ELSE (SceneGraph[n].opacity * np[p].globalOpacity) \div 1000]]

RECURSIVE calculateGlobalVariables(_, _)
\* QSSGRenderNode::calculateGlobalVariables: a dirty node takes its parent's
\* (recomputed) global values composed with its own local ones.  The layer
\* is never dirty here, is active, and its transform is not combined.
calculateGlobalVariables(nd, n) ==
    IF n = LayerId \/ ~nd[n].dirty THEN nd
    ELSE composeGlobals(calculateGlobalVariables(nd, Parent(n)), n, Parent(n))

(***************************************************************************)
(* Node classification.                                                    *)
(***************************************************************************)
\* collectNode: reuse the slot at the cursor or grow the list.
collectNode(node, dst, dstPos) ==
    IF dstPos < Len(dst) THEN [dst EXCEPT ![dstPos + 1] = node]
    ELSE Append(dst, node)

\* collectNodeFront: the same from the back; a new slot goes to the front.
collectNodeFront(node, dst, dstPos) ==
    IF dstPos < Len(dst) THEN [dst EXCEPT ![Len(dst) - dstPos] = node]
    ELSE <<node>> \o dst

\* QSSGRenderableNodeEntry(inNode)
QSSGRenderableNodeEntry(n) == [node |-> n, mesh |-> NoMesh, lights |-> <<>>]

\* A variant of isQueued that tests that the node's global values are up to
\* date, which by then they are, instead of its Active state.
isQueuedWhenClean(nd, inNode) == ~nd[inNode].dirty

\* "if (inNode.getGlobalState(QSSGRenderNode::GlobalState::Active))"
isQueued(nd, inNode) == nd[inNode].globalActive

\* The traversal's state with the node table after a recomputation:
\* recomputed records the nodes whose global values were brought up to date.
withGlobals(io, nd1) ==
    [io EXCEPT !.nodes = nd1,
               !.recomputed = @ \cup {m \in Nodes : io.nodes[m].dirty /\ ~nd1[m].dirty}]

\* "++ioDFSIndex; inNode.dfsIndex = ioDFSIndex;"
assignDfsIndex(io, inNode) ==
    [io EXCEPT !.dfsIndex = @ + 1,
               !.nodes[inNode].dfsIndex = io.dfsIndex + 1,
               !.visited = Append(@, inNode)]

\* The chain of type tests that puts an active node into its typed list.
classifyNode(io, inNode, type) ==
    IF isRenderable(type)
    THEN IF type = "Model"
         THEN [io EXCEPT
                 !.renderableModels = collectNode(QSSGRenderableNodeEntry(inNode), @, io.renderableModelsCount),
                 !.renderableModelsCount = @ + 1]
         ELSE IF type = "Particles"
         THEN [io EXCEPT
                 !.renderableParticles = collectNode(QSSGRenderableNodeEntry(inNode), @, io.renderableParticlesCount),
                 !.renderableParticlesCount = @ + 1]
         ELSE IF type = "Item2D"
         THEN [io EXCEPT
                 !.renderableItem2Ds = collectNodeFront(inNode, @, io.renderableItem2DsCount),
                 !.renderableItem2DsCount = @ + 1]
         ELSE io
    ELSE IF isCamera(type)
    THEN [io EXCEPT !.cameras = collectNode(inNode, @, io.cameraCount),
                    !.cameraCount = @ + 1]
    ELSE IF isLight(type)
    THEN IF SceneGraph[inNode].enabled
         THEN [io EXCEPT !.lights = collectNode(inNode, @, io.lightCount),
                         !.lightCount = @ + 1]
         ELSE io
    ELSE IF type = "ReflectionProbe"
    THEN [io EXCEPT
            !.reflectionProbes = collectNode(inNode, @, io.reflectionProbeCount),
            !.reflectionProbeCount = @ + 1]
    ELSE io

RECURSIVE maybeQueueNodeForRender(_, _)
RECURSIVE queueIfActive(_, _)
RECURSIVE queueChildren(_, _)
\* io holds the out-lists with their cursors, the DFS counter and the node
\* table; visited and recomputed record what the traversal touched.
maybeQueueNodeForRender(io, inNode) ==
    queueIfActive(withGlobals(io, IF io.nodes[inNode].dirty
                                  THEN calculateGlobalVariables(io.nodes, inNode)
                                  ELSE io.nodes),
                  inNode)

\* The body of maybeQueueNodeForRender past the recomputation of the node's
\* global values.
queueIfActive(io, inNode) ==
    IF isQueued(io.nodes, inNode)
    THEN queueChildren(classifyNode(assignDfsIndex(io, inNode), inNode,
                                    SceneGraph[inNode].type),
                       Children(inNode))
    ELSE io

\* "for (auto &theChild : inNode.children)", cut in halves, the first half
\* finished before the second begins, to keep the evaluation shallow.
queueChildren(io, cs) ==
    IF cs = <<>> THEN io
    ELSE IF Len(cs) = 1 THEN maybeQueueNodeForRender(io, cs[1])
    ELSE CHOOSE r \in {queueChildren(queued, SubSeq(cs, Len(cs) \div 2 + 1, Len(cs))) :
                        queued \in {queueChildren(io, SubSeq(cs, 1, Len(cs) \div 2))}} : TRUE

\* A variant of resize that leaves the list at its old length.
resizeSkipped(vec, count) == vec

\* vec.resize(count) for count <= size
resize(vec, count) == IF Len(vec) # count THEN SubSeq(vec, 1, count) ELSE vec

\* The six resizes that follow the traversal.
resizeLists(io) ==
    [io EXCEPT !.renderableModels = resize(@, io.renderableModelsCount),
               !.renderableParticles = resize(@, io.renderableParticlesCount),
               !.renderableItem2Ds = resize(@, io.renderableItem2DsCount),
               !.cameras = resize(@, io.cameraCount),
               !.lights = resize(@, io.lightCount),
               !.reflectionProbes = resize(@, io.reflectionProbeCount)]

\* prepareForRender, "Gather Spatial Nodes from Render Tree": the traversal
\* of the layer's children followed by the six resizes.
gatherSpatialNodes ==
    resizeLists(
        queueChildren(
            [nodes |-> nodes, dfsIndex |-> 0, visited |-> <<>>, recomputed |-> {},
             renderableModels |-> renderableModels, renderableModelsCount |-> 0,
             renderableParticles |-> renderableParticles, renderableParticlesCount |-> 0,
             renderableItem2Ds |-> renderableItem2Ds, renderableItem2DsCount |-> 0,
             cameras |-> cameras, cameraCount |-> 0,
             lights |-> lights, lightCount |-> 0,
             reflectionProbes |-> reflectionProbes, reflectionProbeCount |-> 0],
            Children(LayerId)))

(***************************************************************************)
(* Camera resolution.                                                      *)
(***************************************************************************)
\* QSSGLayerRenderPreparationResult::setupCameraForRender: the camera's
\* calculateGlobalVariables(viewport), which recomputes the node's global
\* values and then the projection.
setupCameraForRender(nd, inCamera) == calculateGlobalVariables(nd, inCamera)

RECURSIVE searchCameraThroughout(_, _)
\* A variant of searchCamera that sets up every camera of the list and keeps
\* the first active one.
searchCameraThroughout(st, iter) ==
    IF iter = <<>> THEN st
    ELSE LET theCamera == Head(iter)
             nd == setupCameraForRender(st.nodes, theCamera)
         IN searchCameraThroughout(
                [nodes  |-> nd,
                 camera |-> IF st.camera = 0 /\ nd[theCamera].globalActive
                            THEN theCamera ELSE st.camera,
                 setup  |-> Append(st.setup, theCamera)],
                Tail(iter))

\* One iteration of the search: theCamera has been set up, nd is the node
\* table after that.
searchStep(st, theCamera, nd) ==
    [nodes  |-> nd,
     camera |-> IF nd[theCamera].globalActive THEN theCamera ELSE 0,
     setup  |-> Append(st.setup, theCamera)]

RECURSIVE searchCamera(_, _)
\* "3. If no explicit camera is set, we'll search and pick the first active
\* camera": the loop runs while no camera is chosen.  st is
\* [nodes, camera, setup]; setup lists the cameras set up so far.
searchCamera(st, iter) ==
    IF ~(st.camera = 0 /\ iter # <<>>) THEN st
    ELSE searchCamera(searchStep(st, Head(iter),
                                 setupCameraForRender(st.nodes, Head(iter))),
                      Tail(iter))

\* A variant of resolveCamera that searches the camera list when the explicit
\* camera is not visible.
resolveCameraWithFallback(nd, cams) ==
    IF layer.explicitCamera # 0
    THEN LET nd1 == setupCameraForRender(nd, layer.explicitCamera)
         IN IF nd1[layer.explicitCamera].globalActive
            THEN [nodes |-> nd1, camera |-> layer.explicitCamera,
                  setup |-> <<layer.explicitCamera>>]
            ELSE searchCamera([nodes |-> nd1, camera |-> 0,
                               setup |-> <<layer.explicitCamera>>], cams)
    ELSE searchCamera([nodes |-> nd, camera |-> 0, setup |-> <<>>], cams)

\* "1." and "2.": the explicit camera, set up, is used if it is active; nd1
\* is the node table after its setup.
useExplicitCamera(nd1) ==
    [nodes  |-> nd1,
     camera |-> IF nd1[layer.explicitCamera].globalActive
                THEN layer.explicitCamera ELSE 0,
     setup  |-> <<layer.explicitCamera>>]

\* prepareForRender, "Cameras"
resolveCamera(nd, cams) ==
    IF layer.explicitCamera # 0
    THEN useExplicitCamera(setupCameraForRender(nd, layer.explicitCamera))
    ELSE searchCamera([nodes |-> nd, camera |-> 0, setup |-> <<>>], cams)

\* getCameraDirectionAndPosition, with cameraData not yet cached
getCameraDirectionAndPosition(nd, cam) ==
    IF cam # 0
    THEN [direction |-> SceneGraph[cam].direction, position |-> nd[cam].globalPos]
    ELSE [direction |-> -1, position |-> 0]

(***************************************************************************)
(* Light and shadow allocation.                                            *)
(***************************************************************************)
effectiveMaxLightCount(feats) ==
    IF "ReduceMaxNumLights" \in feats THEN QSSG_REDUCED_MAX_NUM_LIGHTS
    ELSE QSSG_MAX_NUM_LIGHTS

qMin(a, b) == IF a < b THEN a ELSE b

\* Whether the light may get a shadow map at all.
mightCastShadows(renderLight) ==
    SceneGraph[renderLight].castShadow /\ ~SceneGraph[renderLight].fullyBaked

\* A variant of shadowBudgetLeft that hands out one map more.
shadowBudgetLeftInclusive(shadowMapCount) == shadowMapCount <= QSSG_MAX_NUM_SHADOW_MAPS

\* Whether a light that might cast shadows gets a map, given the maps
\* handed out before it.
shadowBudgetLeft(shadowMapCount) == shadowMapCount < QSSG_MAX_NUM_SHADOW_MAPS

\* How many lights of the list are taken.
lightsTaken(maxLightCount, lts) == qMin(maxLightCount, Len(lts))

\* A variant of lightAt that walks the list from its front.
lightAtForward(lts, k) == lts[k]

\* The k-th light taken, k = 1 .. lightsTaken: the reverse iterator.
lightAt(lts, k) == lts[Len(lts) - k + 1]

\* One iteration of the loop "for (; it != end; ++it)" on the k-th light
\* taken; st is [renderableLights, shadowMapCount, hasScopedLights].
selectLight(lts, k, st) ==
    LET renderLight == lightAt(lts, k)
        shadows == mightCastShadows(renderLight) /\ shadowBudgetLeft(st.shadowMapCount)
    IN [renderableLights |-> Append(st.renderableLights,
                                    [light |-> renderLight, shadows |-> shadows]),
        shadowMapCount   |-> st.shadowMapCount + (IF shadows THEN 1 ELSE 0),
        hasScopedLights  |-> st.hasScopedLights \/ SceneGraph[renderLight].scope # 0]

RECURSIVE selectLightsFrom(_, _, _, _)
\* The iterations first .. last of the loop, in order (cut in halves to keep
\* the evaluation shallow).
selectLightsFrom(lts, first, last, st) ==
    IF first > last THEN st
    ELSE IF first = last THEN selectLight(lts, first, st)
    ELSE LET mid == (first + last) \div 2
             st1 == selectLightsFrom(lts, first, mid, st)
         IN selectLightsFrom(lts, mid + 1, last, st1)

selectLights(lts, end, st) == selectLightsFrom(lts, 1, end, st)

\* "Setup Shadow Maps Entries for Lights casting shadows": the calls
\* addShadowMapEntry(i, size, size, mode, name), i counted from 0.
shadowMapEntries(renderableLights, shadowMapCount) ==
    IF shadowMapCount > 0
    THEN LET idx == SelectSeq([i \in 1 .. Len(renderableLights) |-> i],
                              LAMBDA i : renderableLights[i].shadows)
         IN [j \in 1 .. Len(idx) |->
                [lightIdx |-> idx[j] - 1,
                 light    |-> renderableLights[idx[j]].light,
                 mapMode  |-> IF SceneGraph[renderableLights[idx[j]].light].type # "DirectionalLight"
                              THEN "CUBE" ELSE "VSM"]]
    ELSE <<>>

RECURSIVE scopeLight(_, _)
\* Whether lightScope is the node or one of its ancestors.
scopeLight(node, lightScope) ==
    IF node = 0 THEN FALSE
    ELSE IF node = lightScope THEN TRUE
    ELSE scopeLight(Parent(node), lightScope)

\* A variant of filteredLights that leaves every scoped light out.
filteredLightsUnscoped(renderableLights, node) ==
    SelectSeq(renderableLights, LAMBDA l : SceneGraph[l.light].scope = 0)

\* The light list of one node when some light is scoped.
filteredLights(renderableLights, node) ==
    SelectSeq(renderableLights,
              LAMBDA l : ~(SceneGraph[l.light].scope # 0
                           /\ ~scopeLight(node, SceneGraph[l.light].scope)))

\* "Give each renderable a copy of the lights available": the global list.
prepareGlobalLights(renderableLights, hasScopedLights) ==
    IF hasScopedLights
    THEN SelectSeq(renderableLights, LAMBDA l : SceneGraph[l.light].scope = 0)
    ELSE renderableLights

\* prepareLightsWithScopedLights / prepareLights over one entry list
prepareLights(renderableNodes, renderableLights, hasScopedLights, global) ==
    [idx \in 1 .. Len(renderableNodes) |->
        LET filtered == filteredLights(renderableLights, renderableNodes[idx].node)
        IN [renderableNodes[idx] EXCEPT
              !.lights = IF hasScopedLights /\ filtered # <<>> THEN filtered ELSE global]]

(***************************************************************************)
(* Material, model and particle preparation.                               *)
(***************************************************************************)
\* A variant of clampOpacity whose two thresholds are inclusive.
clampOpacityInclusive(subsetOpacity, renderableFlags) ==
    LET low == subsetOpacity <= QSSG_RENDER_MINIMUM_RENDER_OPACITY
        o1  == IF low THEN 0 ELSE subsetOpacity
        f1  == IF low THEN renderableFlags \cup {"HasTransparency", "CompletelyTransparent"}
               ELSE renderableFlags
    IN IF o1 >= 1000 - QSSG_RENDER_MINIMUM_RENDER_OPACITY
       THEN [opacity |-> 1000, renderableFlags |-> f1]
       ELSE [opacity |-> o1, renderableFlags |-> f1 \cup {"HasTransparency"}]

\* The opacity clamp both material paths share: below the minimum the
\* subset is completely transparent, above 1 - minimum it is snapped to 1,
\* in between (and below) it has transparency.
clampOpacity(subsetOpacity, renderableFlags) ==
    LET low == subsetOpacity < QSSG_RENDER_MINIMUM_RENDER_OPACITY
        o1  == IF low THEN 0 ELSE subsetOpacity
        f1  == IF low THEN renderableFlags \cup {"HasTransparency", "CompletelyTransparent"}
               ELSE renderableFlags
    IN IF o1 > 1000 - QSSG_RENDER_MINIMUM_RENDER_OPACITY
       THEN [opacity |-> 1000, renderableFlags |-> f1]
       ELSE [opacity |-> o1, renderableFlags |-> f1 \cup {"HasTransparency"}]

\* The result is [renderableFlags, opacity, ioFlags].
prepareDefaultMaterialForRender(inMaterial, inExistingFlags, inOpacity, ioFlags) ==
    LET subsetOpacity == (inOpacity * inMaterial.opacity) \div 1000
        blended == subsetOpacity >= QSSG_RENDER_MINIMUM_RENDER_OPACITY
                   /\ (inMaterial.blendMode # "SourceOver"
                       \/ inMaterial.opacityMap
                       \/ inMaterial.alphaMode = "Blend")
        f1 == IF blended THEN inExistingFlags \cup {"HasTransparency"} ELSE inExistingFlags
        c  == clampOpacity(subsetOpacity, f1)
    IN IF inMaterial.transmission
       THEN [renderableFlags |-> c.renderableFlags \cup {"RequiresScreenTexture"},
             opacity |-> c.opacity,
             ioFlags |-> ioFlags \cup {"RequiresScreenTexture", "RequiresMipmapsForScreenTexture"}]
       ELSE [renderableFlags |-> c.renderableFlags, opacity |-> c.opacity, ioFlags |-> ioFlags]

\* A variant of aoTextureFlags that asks for the AO pass alone.
aoTextureFlagsWithoutDepth == {"RequiresSsaoPass"}

\* What the AoTexture capability of a custom material asks of the frame.
aoTextureFlags == {"RequiresDepthTexture", "RequiresSsaoPass"}

prepareCustomMaterialForRender(inMaterial, inExistingFlags, inOpacity, ioFlags) ==
    LET c  == clampOpacity(inOpacity, inExistingFlags)
        rf == inMaterial.renderFlags
        f1 == c.renderableFlags
              \cup (IF "Blending" \in rf THEN {"HasTransparency"} ELSE {})
              \cup (IF "ScreenTexture" \in rf \/ "ScreenMipTexture" \in rf
                    THEN {"RequiresScreenTexture"} ELSE {})
        io == ioFlags
              \cup (IF "ScreenTexture" \in rf THEN {"RequiresScreenTexture"} ELSE {})
              \cup (IF "ScreenMipTexture" \in rf
                    THEN {"RequiresScreenTexture", "RequiresMipmapsForScreenTexture"} ELSE {})
              \cup (IF "DepthTexture" \in rf THEN {"RequiresDepthTexture"} ELSE {})
              \cup (IF "AoTexture" \in rf THEN aoTextureFlags ELSE {})
    IN [renderableFlags |-> f1, opacity |-> c.opacity, ioFlags |-> io]

getCameraDistanceSq(obj, cam) ==
    (obj.worldCenterPoint - cam.position) * cam.direction + obj.depthBiasSq

\* A variant of bucketOf that looks at the transparency flag first.
bucketOfTransparencyFirst(renderableFlags) ==
    IF "HasTransparency" \in renderableFlags THEN "transparent"
    ELSE IF "RequiresScreenTexture" \in renderableFlags THEN "screenTexture"
    ELSE "opaque"

\* The bucket a new record goes to.
bucketOf(renderableFlags) ==
    IF "RequiresScreenTexture" \in renderableFlags THEN "screenTexture"
    ELSE IF "HasTransparency" \in renderableFlags THEN "transparent"
    ELSE "opaque"

\* RENDER_FRAME_NEW of a renderable followed by the push_back into its
\* bucket.  st holds the frame's records, the buckets, the model contexts
\* and the preparation flags.
pushRenderable(st, obj, cam) ==
    LET handle == [obj |-> Len(st.frameObjects) + 1,
                   cameraDistanceSq |-> getCameraDistanceSq(obj, cam)]
        bucket == bucketOf(obj.renderableFlags)
    IN [st EXCEPT !.frameObjects = Append(@, obj),
                  !.screenTextureObjects = IF bucket = "screenTexture" THEN Append(@, handle) ELSE @,
                  !.transparentObjects = IF bucket = "transparent" THEN Append(@, handle) ELSE @,
                  !.opaqueObjects = IF bucket = "opaque" THEN Append(@, handle) ELSE @]

\* BufferManager::loadMesh
loadMesh(model) == IF model \in unresolvedMeshes THEN NoMesh ELSE SceneGraph[model].mesh

\* "If the materials list < size of subsets, then use the last material for
\* the rest", idx counted from 0.
materialAt(materials, idx) ==
    IF idx + 1 > Len(materials) THEN materials[Len(materials)] ELSE materials[idx + 1]

\* The flags a subset starts from: "many renderableFlags are the same for all
\* the subsets", and the model's own transparency.
renderableFlagsForModel(model) ==
    (IF model.receivesShadows THEN {"ReceivesShadows"} ELSE {})
    \cup (IF model.receivesReflections THEN {"ReceivesReflections"} ELSE {})
    \cup (IF model.hasTransparency THEN {"HasTransparency"} ELSE {})

\* generateLightingKey for a lit material, as far as the lights go: the
\* light count and the shadow flag of every light of the list. The flag is
\* worked out from the light and the list alone, with a count of its own.
generateLightingKey(lightList, receivesShadows) ==
    [m_lightCount |-> Len(lightList),
     m_lightShadowFlags |->
        [lightIdx \in DOMAIN lightList |->
            /\ mightCastShadows(lightList[lightIdx].light)
            /\ receivesShadows
            /\ Cardinality({j \in 1 .. lightIdx - 1 : mightCastShadows(lightList[j].light)})
                  < QSSG_MAX_NUM_SHADOW_MAPS]]

\* RENDER_FRAME_NEW<QSSGSubsetRenderable> with the material's preparation
\* result r, and the push into a bucket.
pushSubset(st, nd, renderable, idx, cam, theMaterialObject, type, r) ==
    pushRenderable([st EXCEPT !.ioFlags = r.ioFlags],
                   [type |-> type,
                    node |-> renderable.node,
                    subset |-> idx,
                    renderableFlags |-> r.renderableFlags,
                    opacity |-> r.opacity,
                    worldCenterPoint |-> nd[renderable.node].globalPos
                                         + renderable.mesh.subsets[idx + 1],
                    depthBiasSq |-> theMaterialObject.depthBiasSq,
                    depthWriteMode |-> theMaterialObject.depthDrawMode,
                    bounds |-> [minimum |-> renderable.mesh.subsets[idx + 1]
                                            - renderable.mesh.extent,
                                maximum |-> renderable.mesh.subsets[idx + 1]
                                            + renderable.mesh.extent],
                    globalTransform |-> nd[renderable.node].globalPos,
                    reflectionProbeIndex |-> -1,
                    distanceFromReflectionProbe |-> 0,
                    lights |-> renderable.lights,
                    materialKey |-> generateLightingKey(
                                        renderable.lights,
                                        "ReceivesShadows" \in r.renderableFlags)],
                   cam)

\* The two material paths of a subset; a null material is skipped.
prepareSubsetMaterial(st, nd, renderable, idx, cam, model, theMaterialObject) ==
    IF theMaterialObject.type \in
          {"DefaultMaterial", "PrincipledMaterial", "SpecularGlossyMaterial"}
    THEN pushSubset(st, nd, renderable, idx, cam, theMaterialObject,
                    "DefaultMaterialMeshSubset",
                    prepareDefaultMaterialForRender(theMaterialObject,
                                                    renderableFlagsForModel(model),
                                                    nd[renderable.node].globalOpacity,
                                                    st.ioFlags))
    ELSE IF theMaterialObject.type = "CustomMaterial"
    THEN pushSubset(st, nd, renderable, idx, cam, theMaterialObject,
                    "CustomMaterialMeshSubset",
                    prepareCustomMaterialForRender(theMaterialObject,
                                                   renderableFlagsForModel(model),
                                                   nd[renderable.node].globalOpacity,
                                                   st.ioFlags))
    ELSE st

\* One iteration of the "Subset(s)" loop, idx counted from 0, for a model
\* with at least one material.
prepareSubset(st, nd, renderable, idx, cam) ==
    prepareSubsetMaterial(st, nd, renderable, idx, cam, SceneGraph[renderable.node],
                          materialAt(SceneGraph[renderable.node].materials, idx))

RECURSIVE prepareSubsets(_, _, _, _, _)
prepareSubsets(st, nd, renderable, idx, cam) ==
    IF idx >= Len(renderable.mesh.subsets) \/ SceneGraph[renderable.node].materials = <<>>
    THEN st
    ELSE prepareSubsets(prepareSubset(st, nd, renderable, idx, cam), nd, renderable, idx + 1, cam)

\* A variant of prepareModel that goes on with an entry without a mesh.
prepareModelWithoutMesh(st, nd, renderable, cam) ==
    prepareSubsets([st EXCEPT !.modelContexts = Append(@, renderable.node)],
                   nd, renderable, 0, cam)

\* One iteration of the third loop of prepareModelForRender, over an entry
\* whose mesh the first loop has set.
prepareModel(st, nd, renderable, cam) ==
    IF ~renderable.mesh.loaded THEN st
    ELSE prepareSubsets([st EXCEPT !.modelContexts = Append(@, renderable.node)],
                        nd, renderable, 0, cam)

RECURSIVE prepareModels(_, _, _, _)
\* The loop over the entries, in order (cut in halves to keep the evaluation
\* shallow).
prepareModels(st, nd, renderables, cam) ==
    IF renderables = <<>> THEN st
    ELSE IF Len(renderables) = 1 THEN prepareModel(st, nd, renderables[1], cam)
    ELSE LET half == Len(renderables) \div 2
             st1 == prepareModels(st, nd, SubSeq(renderables, 1, half), cam)
         IN prepareModels(st1, nd, SubSeq(renderables, half + 1, Len(renderables)), cam)

\* "1. Load meshes as needed"
loadMeshes(renderables) ==
    [i \in 1 .. Len(renderables) |->
        [renderables[i] EXCEPT !.mesh = loadMesh(renderables[i].node)]]

prepareModelForRender(st, nd, renderables, cam) ==
    prepareModels(st, nd, renderables, cam)

RECURSIVE prepareParticlesForRender(_, _, _, _)
prepareParticlesForRender(st, nd, renderables, cam) ==
    IF renderables = <<>> THEN st
    ELSE LET renderable == Head(renderables)
             particles == SceneGraph[renderable.node]
             opacity == nd[renderable.node].globalOpacity
             obj == [type |-> "Particles",
                     node |-> renderable.node,
                     subset |-> 0,
                     renderableFlags |-> IF particles.hasTransparency
                                         THEN {"HasTransparency"} ELSE {},
                     opacity |-> opacity,
                     worldCenterPoint |-> nd[renderable.node].globalPos,
                     depthBiasSq |-> 0,
                     depthWriteMode |-> "OpaqueOnly",
                     lights |-> renderable.lights]
             st1 == IF opacity > 0 /\ particles.particleCount # 0
                    THEN pushRenderable(st, obj, cam) ELSE st
         IN prepareParticlesForRender(st1, nd, Tail(renderables), cam)

(***************************************************************************)
(* Reflection probes.                                                      *)
(***************************************************************************)
\* QSSGBounds3::centerExtents(probe->getGlobalPos() + probe->boxOffset, boxSize / 2)
probeBound(nd, probe) ==
    [minimum |-> nd[probe].globalPos + SceneGraph[probe].boxOffset
                 - SceneGraph[probe].boxSize \div 2,
     maximum |-> nd[probe].globalPos + SceneGraph[probe].boxOffset
                 + SceneGraph[probe].boxSize \div 2]

\* injectProbe: the record's bounds moved by its global transform.
nodeBound(obj) ==
    [minimum |-> obj.globalTransform + obj.bounds.minimum,
     maximum |-> obj.globalTransform + obj.bounds.maximum]

\* QSSGBounds3::intersects
intersects(a, b) == ~(b.minimum > a.maximum \/ a.minimum > b.maximum)

\* QSSGBounds3::center
center(b) == (b.minimum + b.maximum) \div 2

\* QVector3D::distanceToPoint
distanceToPoint(a, b) == IF a >= b THEN a - b ELSE b - a

\* A variant of the probe test in which a probe at the same distance as the
\* assigned one takes the record over.
isNearerProbeOrAsNear(obj, distance) ==
    obj.reflectionProbeIndex = -1 \/ distance <= obj.distanceFromReflectionProbe

\* injectProbe: reflectionProbeIndex == -1 || distance < distanceFromReflectionProbe
isNearerProbe(obj, distance) ==
    obj.reflectionProbeIndex = -1 \/ distance < obj.distanceFromReflectionProbe

\* prepareReflectionProbesForRender: injectProbe for probe i (counted from 0)
\* and the record obj of the frame.
injectProbe(st, nd, i, probe, obj) ==
    IF /\ "ReceivesReflections" \in st.frameObjects[obj].renderableFlags
       /\ st.frameObjects[obj].type # "Particles"
       /\ intersects(probeBound(nd, probe), nodeBound(st.frameObjects[obj]))
       /\ isNearerProbe(st.frameObjects[obj],
                        distanceToPoint(center(nodeBound(st.frameObjects[obj])),
                                        center(probeBound(nd, probe))))
    THEN [st EXCEPT
            !.frameObjects[obj].reflectionProbeIndex = i,
            !.frameObjects[obj].distanceFromReflectionProbe =
                distanceToPoint(center(nodeBound(st.frameObjects[obj])),
                                center(probeBound(nd, probe))),
            !.reflectionObjectCount = @ + 1]
    ELSE st

RECURSIVE injectProbeIntoAll(_, _, _, _, _)
\* "for (const auto &handle : ...) injectProbe(handle)"
injectProbeIntoAll(st, nd, i, probe, handles) ==
    IF handles = <<>> THEN st
    ELSE CHOOSE r \in {injectProbeIntoAll(injected, nd, i, probe, Tail(handles)) :
                        injected \in {injectProbe(st, nd, i, probe, Head(handles).obj)}} : TRUE

\* addTexturedReflectionMapEntry / addReflectionMapEntry
addReflectionMapEntries(st, i, probe) ==
    IF SceneGraph[probe].texture
    THEN [st EXCEPT !.reflectionMapEntries =
                        Append(@, [kind |-> "textured", index |-> i, probe |-> probe])]
    ELSE IF st.reflectionObjectCount > 0
    THEN [st EXCEPT !.reflectionMapEntries =
                        Append(@, [kind |-> "live", index |-> i, probe |-> probe])]
    ELSE st

RECURSIVE prepareReflectionProbesForRender(_, _, _, _)
\* QSSGLayerRenderData::prepareReflectionProbesForRender, from probe i on;
\* probes holds the probes not yet handled.
prepareReflectionProbesForRender(st, nd, probes, i) ==
    IF probes = <<>> THEN st
    ELSE CHOOSE r \in {prepareReflectionProbesForRender(registered, nd, Tail(probes), i + 1) :
                        registered \in
                            {addReflectionMapEntries(
                                injectProbeIntoAll(
                                    injectProbeIntoAll([st EXCEPT !.reflectionObjectCount = 0],
                                                       nd, i, Head(probes),
                                                       st.transparentObjects),
                                    nd, i, Head(probes), st.opaqueObjects),
                                i, Head(probes))}} : TRUE

(***************************************************************************)
(* Pass scheduling.                                                        *)
(***************************************************************************)
\* A variant of preparePasses that never schedules the screen-texture pass.
preparePassesWithoutScreenMap(flags) ==
    (IF "RequiresDepthTexture" \in flags THEN <<"depthMapPass">> ELSE <<>>)
    \o (IF "RequiresSsaoPass" \in flags THEN <<"ssaoMapPass">> ELSE <<>>)
    \o (IF "RequiresShadowMapPass" \in flags THEN <<"shadowMapPass">> ELSE <<>>)
    \o <<"reflectionMapPass", "zPrePassPass", "mainPass">>

\* A variant of preparePasses that schedules the shadow maps after the
\* depth pre-pass of the main view.
preparePassesShadowLate(flags) ==
    (IF "RequiresDepthTexture" \in flags THEN <<"depthMapPass">> ELSE <<>>)
    \o (IF "RequiresSsaoPass" \in flags THEN <<"ssaoMapPass">> ELSE <<>>)
    \o <<"reflectionMapPass", "zPrePassPass">>
    \o (IF "RequiresShadowMapPass" \in flags THEN <<"shadowMapPass">> ELSE <<>>)
    \o (IF "RequiresScreenTexture" \in flags THEN <<"screenMapPass">> ELSE <<>>)
    \o <<"mainPass">>

preparePasses(flags) ==
    (IF "RequiresDepthTexture" \in flags THEN <<"depthMapPass">> ELSE <<>>)
    \o (IF "RequiresSsaoPass" \in flags THEN <<"ssaoMapPass">> ELSE <<>>)
    \o (IF "RequiresShadowMapPass" \in flags THEN <<"shadowMapPass">> ELSE <<>>)
    \o <<"reflectionMapPass", "zPrePassPass">>
    \o (IF "RequiresScreenTexture" \in flags THEN <<"screenMapPass">> ELSE <<>>)
    \o <<"mainPass">>

\* The flags prepareForRender sets before the scene is looked at: SSAO and
\* the effects' depth-texture requirement.
layerFlags ==
    (IF layer.ssaoEnabled THEN {"RequiresSsaoPass"} ELSE {})
    \cup (IF layer.ssaoEnabled \/ layer.effectRequiresDepthTexture
          THEN {"RequiresDepthTexture"} ELSE {})

(***************************************************************************)
(* Per-frame sorted views.                                                 *)
(***************************************************************************)
\* A variant of isRenderObjectPtrLessThan that puts the farther object first.
isRenderObjectPtrFartherThan(lhs, rhs) == lhs.cameraDistanceSq > rhs.cameraDistanceSq

isRenderObjectPtrLessThan(lhs, rhs) == lhs.cameraDistanceSq < rhs.cameraDistanceSq

iSRenderObjectPtrGreatThan(lhs, rhs) == lhs.cameraDistanceSq > rhs.cameraDistanceSq

comesBefore(cmp, lhs, rhs) ==
    IF cmp = "less" THEN isRenderObjectPtrLessThan(lhs, rhs)
    ELSE iSRenderObjectPtrGreatThan(lhs, rhs)

RECURSIVE stdSortFrom(_, _, _)
\* std::sort is not stable: every arrangement of the elements in which no
\* element comes before one that the comparison puts ahead of it is a
\* possible result.  idx is the set of positions not yet placed.
stdSortFrom(vec, idx, cmp) ==
    IF idx = {} THEN {<<>>}
    ELSE UNION {{<<vec[i]>> \o t : t \in stdSortFrom(vec, idx \ {i}, cmp)} :
                i \in {i \in idx : \A j \in idx : ~comesBefore(cmp, vec[j], vec[i])}}

stdSort(vec, cmp) == stdSortFrom(vec, DOMAIN vec, cmp)

\* The camera-relative depth of an item's parent node; ctx is [nodes, cam].
parentCameraDistanceSq(ctx, item) ==
    ((IF Parent(item) = LayerId THEN 0 ELSE ctx.nodes[Parent(item)].globalPos)
        - ctx.cam.position) * ctx.cam.direction

\* getRenderableItem2Ds: isItemNodeDistanceGreatThan.  Every item has a
\* parent.
isItemNodeDistanceGreatThan(ctx, lhs, rhs) ==
    parentCameraDistanceSq(ctx, lhs) > parentCameraDistanceSq(ctx, rhs)

\* getRenderableItem2Ds: isItemZOrderLessThan
isItemZOrderLessThan(lhs, rhs) ==
    Parent(lhs) = Parent(rhs) /\ SceneGraph[lhs].zOrder < SceneGraph[rhs].zOrder

itemComesBefore(cmp, ctx, lhs, rhs) ==
    IF cmp = "distance" THEN isItemNodeDistanceGreatThan(ctx, lhs, rhs)
    ELSE isItemZOrderLessThan(lhs, rhs)

(***************************************************************************)
(* std::stable_sort.  With a comparison that is a strict weak ordering the *)
(* result is the one stable arrangement.  isItemZOrderLessThan is not one  *)
(* (items of different parents compare equivalent to everything), so what  *)
(* the call returns is what the library's algorithm makes of it.  For the  *)
(* short ranges of a layer's 2D items (up to 14 elements) the libraries do *)
(* one of: a linear insertion sort (libc++), an insertion sort that first  *)
(* compares with the front element (MSVC, and libstdc++ without a buffer), *)
(* and that insertion sort on the two halves of the range followed by a    *)
(* merge through a buffer (libstdc++).                                     *)
(***************************************************************************)
\* Linear insertion of a value behind a sorted range: it moves towards the
\* front past every element it comes before and stops behind the first one
\* it does not come before.
linearInsert(sorted, val, cmp, ctx) ==
    LET RECURSIVE stopsBehind(_)
        stopsBehind(pos) ==
            IF pos > 0 /\ itemComesBefore(cmp, ctx, val, sorted[pos])
            THEN stopsBehind(pos - 1) ELSE pos
    IN CHOOSE r \in {SubSeq(sorted, 1, pos) \o <<val>> \o SubSeq(sorted, pos + 1, Len(sorted)) :
                        pos \in {stopsBehind(Len(sorted))}} : TRUE

\* One step of an insertion sort; guarded: the value goes to the front at
\* once if it comes before the front element.
insertStep(sorted, val, guarded, cmp, ctx) ==
    IF guarded /\ sorted # <<>> /\ itemComesBefore(cmp, ctx, val, sorted[1])
    THEN <<val>> \o sorted
    ELSE linearInsert(sorted, val, cmp, ctx)

RECURSIVE insertionSort(_, _, _, _, _)
\* The first k elements of vec, sorted by insertion: the k-th element is
\* inserted into the sorted range of the first k - 1.
insertionSort(vec, k, guarded, cmp, ctx) ==
    IF k = 0 THEN <<>>
    ELSE CHOOSE r \in {insertStep(sorted, vec[k], guarded, cmp, ctx) :
                        sorted \in {insertionSort(vec, k - 1, guarded, cmp, ctx)}} : TRUE

RECURSIVE mergeForward(_, _, _, _, _, _)
\* The merge from the front of r1 from position i and r2 from position j:
\* the second range's element is taken when it comes before the first
\* range's.
mergeForward(r1, r2, i, j, cmp, ctx) ==
    IF i > Len(r1) THEN SubSeq(r2, j, Len(r2))
    ELSE IF j > Len(r2) THEN SubSeq(r1, i, Len(r1))
    ELSE IF itemComesBefore(cmp, ctx, r2[j], r1[i])
    THEN <<r2[j]>> \o mergeForward(r1, r2, i, j + 1, cmp, ctx)
    ELSE <<r1[i]>> \o mergeForward(r1, r2, i + 1, j, cmp, ctx)

RECURSIVE mergeBackward(_, _, _, _, _, _)
\* The merge from the back of r1 up to position i and r2 up to position j:
\* the first range's last element is placed when the second range's last
\* comes before it.
mergeBackward(r1, r2, i, j, cmp, ctx) ==
    IF i = 0 THEN SubSeq(r2, 1, j)
    ELSE IF j = 0 THEN SubSeq(r1, 1, i)
    ELSE IF itemComesBefore(cmp, ctx, r2[j], r1[i])
    THEN Append(mergeBackward(r1, r2, i - 1, j, cmp, ctx), r1[i])
    ELSE Append(mergeBackward(r1, r2, i, j - 1, cmp, ctx), r2[j])

\* The two sorted halves of a range merged: from the front when the first
\* half is not the longer one, from the back otherwise.
mergeAdaptive(r1, r2, cmp, ctx) ==
    IF Len(r1) <= Len(r2) THEN mergeForward(r1, r2, 1, 1, cmp, ctx)
    ELSE mergeBackward(r1, r2, Len(r1), Len(r2), cmp, ctx)

\* The halves [first, middle) and [middle, last), middle = first + (len + 1) / 2
stableSortAdaptive(vec, cmp, ctx) ==
    CHOOSE r \in {mergeAdaptive(r1, r2, cmp, ctx) :
                    r1 \in {insertionSort(SubSeq(vec, 1, (Len(vec) + 1) \div 2),
                                          (Len(vec) + 1) \div 2, TRUE, cmp, ctx)},
                    r2 \in {insertionSort(SubSeq(vec, (Len(vec) + 1) \div 2 + 1, Len(vec)),
                                          Len(vec) - (Len(vec) + 1) \div 2, TRUE, cmp, ctx)}} : TRUE

StableSortBuilds == {"linear", "guarded", "adaptive"}

stdStableSort(build, vec, cmp, ctx) ==
    IF build = "linear" THEN insertionSort(vec, Len(vec), FALSE, cmp, ctx)
    ELSE IF build = "guarded" THEN insertionSort(vec, Len(vec), TRUE, cmp, ctx)
    ELSE stableSortAdaptive(vec, cmp, ctx)

\* The two sorts of getRenderableItem2Ds, one after the other.
sortItem2Ds(build, vec, ctx) ==
    CHOOSE r \in {stdStableSort(build, byDistance, "zOrder", ctx) :
                    byDistance \in {stdStableSort(build, vec, "distance", ctx)}} : TRUE

(***************************************************************************)
(* The layer data's operations.                                            *)
(***************************************************************************)
Ret(op, ran, val) == [op |-> op, ran |-> ran, val |-> val]

NoLocals ==
    [visited |-> <<>>, recomputed |-> {}, setup |-> <<>>, maxLightCount |-> 0,
     renderableLights |-> <<>>, shadowMapCount |-> 0, hasScopedLights |-> FALSE,
     shadowMapEntries |-> <<>>, reflectionMapEntries |-> <<>>]

\* "features.set(Ssao, layer.ssaoEnabled())" and the reduced light budget of
\* a graphics context with a small uniform buffer range.
frameFeatures ==
    (IF layer.ssaoEnabled THEN features \cup {"Ssao"} ELSE features \ {"Ssao"})
    \cup (IF rhi.maxUniformBufferRange < REDUCED_MAX_LIGHT_COUNT_THRESHOLD_BYTES
          THEN {"ReduceMaxNumLights"} ELSE {})

\* The end of prepareForRender: models and particles are prepared and the
\* frame's result is put together.  io is the classification, cam the camera
\* resolution, sel the light selection.
prepareFrameRenderables(io, feats, cam, maxLightCount, sel, entries, global, theCameraData, models, particles) ==
    [nodes |-> cam.nodes,
     camera |-> cam.camera,
     renderableModels |-> models,
     renderableParticles |-> particles,
     renderableItem2Ds |-> io.renderableItem2Ds,
     cameras |-> io.cameras,
     lights |-> io.lights,
     reflectionProbes |-> io.reflectionProbes,
     cameraData |-> theCameraData,
     features |-> feats \cup (IF entries # <<>> THEN {"Ssm"} ELSE {}),
     globalLights |-> global,
     frame |->
        CHOOSE withProbes \in
            {prepareReflectionProbesForRender(prepared, cam.nodes, io.reflectionProbes, 0) :
                prepared \in
                    {prepareParticlesForRender(
                        prepareModelForRender(
                            [frameObjects |-> frameObjects, opaqueObjects |-> opaqueObjects,
                             transparentObjects |-> transparentObjects,
                             screenTextureObjects |-> screenTextureObjects,
                             modelContexts |-> modelContexts,
                             ioFlags |-> layerFlags
                                         \cup (IF entries # <<>>
                                               THEN {"RequiresShadowMapPass"} ELSE {}),
                             reflectionMapEntries |-> <<>>, reflectionObjectCount |-> 0],
                            cam.nodes, models, theCameraData),
                        cam.nodes, particles, theCameraData)}} : TRUE,
     warnings |->
         [tooManyLightsWarningShown |->
             warnings.tooManyLightsWarningShown \/ Len(io.lights) > maxLightCount,
          tooManyShadowLightsWarningShown |->
             warnings.tooManyShadowLightsWarningShown
             \/ sel.shadowMapCount >= QSSG_MAX_NUM_SHADOW_MAPS],
     locals |-> [visited |-> io.visited, recomputed |-> io.recomputed,
                 setup |-> cam.setup, maxLightCount |-> maxLightCount,
                 renderableLights |-> sel.renderableLights,
                 shadowMapCount |-> sel.shadowMapCount,
                 hasScopedLights |-> sel.hasScopedLights,
                 shadowMapEntries |-> entries,
                 reflectionMapEntries |-> <<>>]]

\* "Give each renderable a copy of the lights available" and the camera data.
prepareFrameNodeLights(io, feats, cam, maxLightCount, sel, entries, global) ==
    prepareFrameRenderables(
        io, feats, cam, maxLightCount, sel, entries, global,
        IF cameraData.has THEN cameraData.data
        ELSE getCameraDirectionAndPosition(cam.nodes, cam.camera),
        loadMeshes(prepareLights(io.renderableModels, sel.renderableLights,
                                 sel.hasScopedLights, global)),
        prepareLights(io.renderableParticles, sel.renderableLights,
                      sel.hasScopedLights, global))

\* The shadow map entries and the global light list of the selection.
prepareFrameShadowMaps(io, feats, cam, maxLightCount, sel) ==
    prepareFrameNodeLights(
        io, feats, cam, maxLightCount, sel,
        shadowMapEntries(sel.renderableLights, sel.shadowMapCount),
        prepareGlobalLights(sel.renderableLights, sel.hasScopedLights))

\* "Lights": the selection of the lights that render.
prepareFrameLights(io, feats, cam, maxLightCount) ==
    prepareFrameShadowMaps(
        io, feats, cam, maxLightCount,
        selectLights(io.lights, lightsTaken(maxLightCount, io.lights),
                     [renderableLights |-> <<>>, shadowMapCount |-> 0,
                      hasScopedLights |-> FALSE]))

\* "Cameras", on the classification io.
prepareFrameCameras(io, feats) ==
    prepareFrameLights(io, feats, resolveCamera(io.nodes, io.cameras),
                       effectiveMaxLightCount(feats))

\* The body of prepareForRender past its guard: everything the call
\* computes from the state it starts in.
prepareFrame == prepareFrameCameras(gatherSpatialNodes, frameFeatures)

\* A variant of alreadyPrepared that lets every call through.
neverPrepared == FALSE

\* "if (layerPrepResult.has_value()) return;"
alreadyPrepared == layerPrepResult.has

\* QSSGLayerRenderData::prepareForRender
prepareForRender ==
    IF alreadyPrepared
    THEN /\ UNCHANGED <<sceneVars, dataVars>>
         /\ ret' = Ret("prepareForRender", FALSE, <<>>)
    ELSE \E r \in {prepareFrame} :
         /\ nodes' = r.nodes
         /\ layer' = [layer EXCEPT !.renderedCamera = r.camera]
         /\ UNCHANGED <<contextVars, edits>>
         /\ renderableModels' = r.renderableModels
         /\ renderableParticles' = r.renderableParticles
         /\ renderableItem2Ds' = r.renderableItem2Ds
         /\ cameras' = r.cameras
         /\ lights' = r.lights
         /\ reflectionProbes' = r.reflectionProbes
         /\ camera' = r.camera
         /\ cameraData' = [has |-> TRUE, data |-> r.cameraData]
         /\ features' = r.features
         /\ globalLights' = r.globalLights
         /\ frameObjects' = r.frame.frameObjects
         /\ opaqueObjects' = r.frame.opaqueObjects
         /\ transparentObjects' = r.frame.transparentObjects
         /\ screenTextureObjects' = r.frame.screenTextureObjects
         /\ modelContexts' = r.frame.modelContexts
         /\ layerPrepResult' = [has |-> TRUE, flags |-> r.frame.ioFlags]
         /\ activePasses' = preparePasses(r.frame.ioFlags)
         /\ renderedDepthWriteObjects' = <<>>
         /\ renderedOpaqueDepthPrepassObjects' = <<>>
         /\ UNCHANGED <<renderedOpaqueObjects, renderedTransparentObjects,
                        renderedScreenTextureObjects, renderedItem2Ds>>
         /\ warnings' = r.warnings
         /\ locals' = [r.locals EXCEPT !.reflectionMapEntries = r.frame.reflectionMapEntries]
         /\ ret' = Ret("prepareForRender", TRUE, <<>>)

\* A variant of resetForFrame that leaves the two depth lists as they are.
resetForFrameKeepingDepthLists ==
    /\ activePasses' = <<>>
    /\ transparentObjects' = <<>>
    /\ screenTextureObjects' = <<>>
    /\ opaqueObjects' = <<>>
    /\ layerPrepResult' = [has |-> FALSE, flags |-> {}]
    /\ camera' = 0
    /\ cameraData' = [has |-> FALSE, data |-> [direction |-> 0, position |-> 0]]
    /\ renderedOpaqueObjects' = <<>>
    /\ renderedTransparentObjects' = <<>>
    /\ renderedScreenTextureObjects' = <<>>
    /\ renderedItem2Ds' = <<>>
    /\ renderableItem2Ds' = <<>>
    /\ globalLights' = <<>>
    /\ modelContexts' = <<>>
    /\ features' = {}
    /\ frameObjects' = <<>>   \* no handle refers to the old frame's records any more
    /\ UNCHANGED <<sceneVars, renderableModels, renderableParticles, cameras, lights,
                   reflectionProbes, warnings, locals,
                   renderedOpaqueDepthPrepassObjects, renderedDepthWriteObjects>>
    /\ ret' = Ret("resetForFrame", TRUE, <<>>)

\* QSSGLayerRenderData::resetForFrame
resetForFrame ==
    /\ activePasses' = <<>>
    /\ transparentObjects' = <<>>
    /\ screenTextureObjects' = <<>>
    /\ opaqueObjects' = <<>>
    /\ layerPrepResult' = [has |-> FALSE, flags |-> {}]
    /\ camera' = 0
    /\ cameraData' = [has |-> FALSE, data |-> [direction |-> 0, position |-> 0]]
    /\ renderedOpaqueObjects' = <<>>
    /\ renderedTransparentObjects' = <<>>
    /\ renderedScreenTextureObjects' = <<>>
    /\ renderedItem2Ds' = <<>>
    /\ renderedOpaqueDepthPrepassObjects' = <<>>
    /\ renderedDepthWriteObjects' = <<>>
    /\ renderableItem2Ds' = <<>>
    /\ globalLights' = <<>>
    /\ modelContexts' = <<>>
    /\ features' = {}
    /\ frameObjects' = <<>>   \* no handle refers to the old frame's records any more
    /\ UNCHANGED <<sceneVars, renderableModels, renderableParticles, cameras, lights,
                   reflectionProbes, warnings, locals>>
    /\ ret' = Ret("resetForFrame", TRUE, <<>>)

\* getSortedOpaqueRenderableObjects: the lists the call can leave in
\* renderedOpaqueObjects.
sortedOpaqueRenderableObjects ==
    IF renderedOpaqueObjects # <<>> \/ camera = 0
    THEN {renderedOpaqueObjects}
    ELSE IF layer.enableDepthTest /\ opaqueObjects # <<>>
    THEN stdSort(opaqueObjects, "less")
    ELSE {renderedOpaqueObjects}

\* A variant of getSortedOpaqueRenderableObjects that hands out the bucket as
\* it is when the layer has no depth test.
getSortedOpaqueRenderableObjectsOrBucket ==
    /\ IF renderedOpaqueObjects # <<>> \/ camera = 0
       THEN UNCHANGED renderedOpaqueObjects
       ELSE IF layer.enableDepthTest /\ opaqueObjects # <<>>
       THEN renderedOpaqueObjects' \in stdSort(opaqueObjects, "less")
       ELSE renderedOpaqueObjects' = opaqueObjects
    /\ ret' = Ret("getSortedOpaqueRenderableObjects", TRUE, renderedOpaqueObjects')
    /\ UNCHANGED <<sceneVars, classifiedVars, bucketVars, prepVars,
                   renderedTransparentObjects, renderedScreenTextureObjects,
                   renderedItem2Ds, renderedDepthWriteObjects,
                   renderedOpaqueDepthPrepassObjects>>

\* QSSGLayerRenderData::getSortedOpaqueRenderableObjects
getSortedOpaqueRenderableObjects ==
    /\ renderedOpaqueObjects' \in sortedOpaqueRenderableObjects
    /\ ret' = Ret("getSortedOpaqueRenderableObjects", TRUE, renderedOpaqueObjects')
    /\ UNCHANGED <<sceneVars, classifiedVars, bucketVars, prepVars,
                   renderedTransparentObjects, renderedScreenTextureObjects,
                   renderedItem2Ds, renderedDepthWriteObjects,
                   renderedOpaqueDepthPrepassObjects>>

\* getSortedTransparentRenderableObjects: the lists the call can leave in
\* renderedTransparentObjects.
sortedTransparentRenderableObjects ==
    IF renderedTransparentObjects # <<>> \/ camera = 0
    THEN {renderedTransparentObjects}
    ELSE IF transparentObjects # <<>> \/ (~layer.enableDepthTest /\ opaqueObjects # <<>>)
    THEN stdSort(transparentObjects
                 \o (IF ~layer.enableDepthTest THEN opaqueObjects ELSE <<>>), "greater")
    ELSE {<<>>}

\* A variant of getSortedTransparentRenderableObjects that leaves the opaque
\* bucket out whatever the depth test setting is.
getSortedTransparentRenderableObjectsAlone ==
    /\ IF renderedTransparentObjects # <<>> \/ camera = 0
       THEN UNCHANGED renderedTransparentObjects
       ELSE IF transparentObjects # <<>>
       THEN renderedTransparentObjects' \in stdSort(transparentObjects, "greater")
       ELSE renderedTransparentObjects' = transparentObjects
    /\ ret' = Ret("getSortedTransparentRenderableObjects", TRUE, renderedTransparentObjects')
    /\ UNCHANGED <<sceneVars, classifiedVars, bucketVars, prepVars,
                   renderedOpaqueObjects, renderedScreenTextureObjects,
                   renderedItem2Ds, renderedDepthWriteObjects,
                   renderedOpaqueDepthPrepassObjects>>

\* QSSGLayerRenderData::getSortedTransparentRenderableObjects
getSortedTransparentRenderableObjects ==
    /\ renderedTransparentObjects' \in sortedTransparentRenderableObjects
    /\ ret' = Ret("getSortedTransparentRenderableObjects", TRUE, renderedTransparentObjects')
    /\ UNCHANGED <<sceneVars, classifiedVars, bucketVars, prepVars,
                   renderedOpaqueObjects, renderedScreenTextureObjects,
                   renderedItem2Ds, renderedDepthWriteObjects,
                   renderedOpaqueDepthPrepassObjects>>

\* A variant of the screen-texture accessor that sorts the bucket without
\* asking whether a camera was resolved.
sortedScreenTextureRenderableObjectsWithoutCamera ==
    IF renderedScreenTextureObjects # <<>>
    THEN {renderedScreenTextureObjects}
    ELSE IF screenTextureObjects # <<>>
    THEN stdSort(screenTextureObjects, "greater")
    ELSE {<<>>}

\* getSortedScreenTextureRenderableObjects: the lists the call can leave in
\* renderedScreenTextureObjects.
sortedScreenTextureRenderableObjects ==
    IF renderedScreenTextureObjects # <<>> \/ camera = 0
    THEN {renderedScreenTextureObjects}
    ELSE IF screenTextureObjects # <<>>
    THEN stdSort(screenTextureObjects, "greater")
    ELSE {<<>>}

\* QSSGLayerRenderData::getSortedScreenTextureRenderableObjects
getSortedScreenTextureRenderableObjects ==
    /\ renderedScreenTextureObjects' \in sortedScreenTextureRenderableObjects
    /\ ret' = Ret("getSortedScreenTextureRenderableObjects", TRUE,
                  renderedScreenTextureObjects')
    /\ UNCHANGED <<sceneVars, classifiedVars, bucketVars, prepVars,
                   renderedOpaqueObjects, renderedTransparentObjects,
                   renderedItem2Ds, renderedDepthWriteObjects,
                   renderedOpaqueDepthPrepassObjects>>

\* getRenderableItem2Ds: the lists the call can leave in renderedItem2Ds.
sortedRenderableItem2Ds ==
    IF renderedItem2Ds # <<>> \/ camera = 0
    THEN {renderedItem2Ds}
    ELSE IF renderableItem2Ds # <<>>
    THEN {sortItem2Ds(build, renderableItem2Ds, ctx) :
            build \in StableSortBuilds,
            ctx \in {[nodes |-> nodes,
                      cam |-> IF cameraData.has THEN cameraData.data
                              ELSE getCameraDirectionAndPosition(nodes, camera)]}}
    ELSE {<<>>}

\* QSSGLayerRenderData::getRenderableItem2Ds
getRenderableItem2Ds ==
    /\ renderedItem2Ds' \in sortedRenderableItem2Ds
    /\ cameraData' = IF renderedItem2Ds = <<>> /\ camera # 0 /\ renderableItem2Ds # <<>>
                     THEN [has |-> TRUE,
                           data |-> IF cameraData.has THEN cameraData.data
                                    ELSE getCameraDirectionAndPosition(nodes, camera)]
                     ELSE cameraData
    /\ ret' = Ret("getRenderableItem2Ds", TRUE, renderedItem2Ds')
    /\ UNCHANGED <<sceneVars, classifiedVars, bucketVars,
                   layerPrepResult, camera, features, globalLights, activePasses,
                   warnings, locals,
                   renderedOpaqueObjects, renderedTransparentObjects,
                   renderedScreenTextureObjects, renderedDepthWriteObjects,
                   renderedOpaqueDepthPrepassObjects>>

\* A variant of the depth-write selection in which OpaqueOnly counts for
\* every list, the transparent one included.
depthWriteObjectsOfAnyList(list, withOpaqueOnly) ==
    SelectSeq(list, LAMBDA h :
        frameObjects[h.obj].depthWriteMode \in {"Always", "OpaqueOnly"})

\* updateSortedDepthObjectsListImp: the records of a sorted list that go to
\* renderedDepthWriteObjects; OpaqueOnly counts for the opaque and the
\* screen-texture list.
depthWriteObjectsOf(list, withOpaqueOnly) ==
    SelectSeq(list, LAMBDA h :
        \/ frameObjects[h.obj].depthWriteMode = "Always"
        \/ withOpaqueOnly /\ frameObjects[h.obj].depthWriteMode = "OpaqueOnly")

\* updateSortedDepthObjectsListImp: the records of a sorted list that go to
\* renderedOpaqueDepthPrepassObjects.
depthPrepassObjectsOf(list) ==
    SelectSeq(list, LAMBDA h : frameObjects[h.obj].depthWriteMode = "OpaquePrePass")

\* QSSGLayerRenderData::updateSortedDepthObjectsListImp, the three sorted
\* accessors it calls included.
updateSortedDepthObjectsListImp ==
    IF renderedDepthWriteObjects # <<>> \/ renderedOpaqueDepthPrepassObjects # <<>>
    THEN UNCHANGED <<renderedOpaqueObjects, renderedTransparentObjects,
                     renderedScreenTextureObjects, renderedDepthWriteObjects,
                     renderedOpaqueDepthPrepassObjects>>
    ELSE /\ renderedOpaqueObjects' \in sortedOpaqueRenderableObjects
         /\ renderedTransparentObjects' \in sortedTransparentRenderableObjects
         /\ renderedScreenTextureObjects' \in sortedScreenTextureRenderableObjects
         /\ IF layer.enableDepthTest
            THEN /\ renderedDepthWriteObjects' =
                        depthWriteObjectsOf(renderedOpaqueObjects', TRUE)
                        \o depthWriteObjectsOf(renderedTransparentObjects', FALSE)
                        \o depthWriteObjectsOf(renderedScreenTextureObjects', TRUE)
                 /\ renderedOpaqueDepthPrepassObjects' =
                        depthPrepassObjectsOf(renderedOpaqueObjects')
                        \o depthPrepassObjectsOf(renderedTransparentObjects')
                        \o depthPrepassObjectsOf(renderedScreenTextureObjects')
            ELSE UNCHANGED <<renderedDepthWriteObjects, renderedOpaqueDepthPrepassObjects>>

\* QSSGLayerRenderData::getSortedRenderedDepthWriteObjects
getSortedRenderedDepthWriteObjects ==
    /\ updateSortedDepthObjectsListImp
    /\ ret' = Ret("getSortedRenderedDepthWriteObjects", TRUE, renderedDepthWriteObjects')
    /\ UNCHANGED <<sceneVars, classifiedVars, bucketVars, prepVars, renderedItem2Ds>>

\* QSSGLayerRenderData::getSortedrenderedOpaqueDepthPrepassObjects
getSortedrenderedOpaqueDepthPrepassObjects ==
    /\ updateSortedDepthObjectsListImp
    /\ ret' = Ret("getSortedrenderedOpaqueDepthPrepassObjects", TRUE,
                  renderedOpaqueDepthPrepassObjects')
    /\ UNCHANGED <<sceneVars, classifiedVars, bucketVars, prepVars, renderedItem2Ds>>

(***************************************************************************)
(* The front end: changes to the scene between calls on the layer data.    *)
(***************************************************************************)
FrontEnd == Ret("frontend", TRUE, <<>>)

\* A node's visibility flips; the node and its subtree become dirty.
setActive(n) ==
    /\ edits < MaxEdits
    /\ nodes' = markDirty([nodes EXCEPT ![n].active = ~@], n)
    /\ edits' = edits + 1
    /\ ret' = FrontEnd
    /\ UNCHANGED <<layer, contextVars, dataVars>>

\* The view's camera property: a camera of the scene or none.
setExplicitCamera(c) ==
    /\ edits < MaxEdits
    /\ c # layer.explicitCamera
    /\ layer' = [layer EXCEPT !.explicitCamera = c]
    /\ edits' = edits + 1
    /\ ret' = FrontEnd
    /\ UNCHANGED <<nodes, contextVars, dataVars>>

\* One of the scene environment's switches flips.
setLayerFlag(f) ==
    /\ edits < MaxEdits
    /\ layer' = [layer EXCEPT ![f] = ~@]
    /\ edits' = edits + 1
    /\ ret' = FrontEnd
    /\ UNCHANGED <<nodes, contextVars, dataVars>>

\* The buffer manager gets hold of a mesh it could not load before (its
\* file or geometry has arrived); loadMesh returns it from now on.
meshResolved(model) ==
    /\ edits < MaxEdits
    /\ model \in unresolvedMeshes
    /\ unresolvedMeshes' = unresolvedMeshes \ {model}
    /\ edits' = edits + 1
    /\ ret' = FrontEnd
    /\ UNCHANGED <<nodes, layer, rhi, shaderLibrary, dataVars>>

LayerSwitches == {"ssaoEnabled", "enableDepthTest", "effectRequiresDepthTexture"}

\* The models whose mesh is not there when the layer is first prepared.
SlowMeshes == {18}

\* The shader library as constructed: m_lock free, nothing cached, no call
\* under way.
ShaderLibraryConstructed ==
    [lock |-> [writer |-> 0, readers |-> {}], expandedFiles |-> {},
     calls |-> [t \in {1, 2} |-> <<>>]]

\* The uniform buffer ranges a graphics context may report: the minimum
\* OpenGL ES mandates and a desktop one.
UniformBufferRanges == {3584, 65536}

\* The layer data as constructed: nothing classified, nothing prepared.
Constructed ==
    /\ layerPrepResult = [has |-> FALSE, flags |-> {}]
    /\ renderableModels = <<>> /\ renderableParticles = <<>> /\ renderableItem2Ds = <<>>
    /\ cameras = <<>> /\ lights = <<>> /\ reflectionProbes = <<>>
    /\ camera = 0
    /\ cameraData = [has |-> FALSE, data |-> [direction |-> 0, position |-> 0]]
    /\ features = {}
    /\ globalLights = <<>>
    /\ frameObjects = <<>>
    /\ opaqueObjects = <<>> /\ transparentObjects = <<>> /\ screenTextureObjects = <<>>
    /\ modelContexts = <<>> /\ activePasses = <<>>
    /\ renderedOpaqueObjects = <<>> /\ renderedTransparentObjects = <<>>
    /\ renderedScreenTextureObjects = <<>> /\ renderedItem2Ds = <<>>
    /\ renderedDepthWriteObjects = <<>> /\ renderedOpaqueDepthPrepassObjects = <<>>
    /\ warnings = [tooManyLightsWarningShown |-> FALSE,
                   tooManyShadowLightsWarningShown |-> FALSE]
    /\ locals = NoLocals
    /\ ret = Ret("constructed", TRUE, <<>>)

\* A node as the front end creates it: active, its global values not yet
\* computed.
NewNode(active) ==
    [active |-> active, dirty |-> TRUE, globalActive |-> FALSE,
     globalPos |-> 0, globalOpacity |-> 1000, dfsIndex |-> 0]

\* The scene as authored, everything visible; the front end changes it while
\* the layer is in use.
Init ==
    /\ nodes = [n \in Nodes |-> NewNode(TRUE)]
    /\ layer = [explicitCamera |-> 0, renderedCamera |-> 0, ssaoEnabled |-> FALSE,
                enableDepthTest |-> TRUE, effectRequiresDepthTexture |-> FALSE]
    /\ rhi \in [maxUniformBufferRange : UniformBufferRanges]
    /\ unresolvedMeshes = SlowMeshes
    /\ shaderLibrary = ShaderLibraryConstructed
    /\ edits = 0
    /\ Constructed

\* The nodes a scene may be authored with as invisible, for the behaviours
\* that look at the sorted views.
Hideable == {1, 2, 13}

\* A scene authored in any of its variants and then left alone.
InitAuthored ==
    /\ \E hidden \in SUBSET Hideable : nodes = [n \in Nodes |-> NewNode(n \notin hidden)]
    /\ \E c \in CameraNodes \cup {0}, d \in BOOLEAN :
          layer = [explicitCamera |-> c, renderedCamera |-> 0, ssaoEnabled |-> FALSE,
                   enableDepthTest |-> d, effectRequiresDepthTexture |-> FALSE]
    /\ rhi = [maxUniformBufferRange |-> 65536]
    /\ unresolvedMeshes = SlowMeshes
    /\ shaderLibrary = ShaderLibraryConstructed
    /\ edits = MaxEdits
    /\ Constructed

Next ==
    \/ prepareForRender
    \/ resetForFrame
    \/ \E n \in Switchable : setActive(n)
    \/ \E c \in CameraNodes \cup {0} : setExplicitCamera(c)
    \/ \E f \in LayerSwitches : setLayerFlag(f)
    \/ \E model \in SlowMeshes : meshResolved(model)

Spec == Init /\ [][Next]_vars

NextSorted ==
    \/ prepareForRender
    \/ resetForFrame
    \/ getSortedOpaqueRenderableObjects
    \/ getSortedTransparentRenderableObjects
    \/ getSortedScreenTextureRenderableObjects
    \/ getRenderableItem2Ds
    \/ getSortedRenderedDepthWriteObjects
    \/ getSortedrenderedOpaqueDepthPrepassObjects

SpecSorted == InitAuthored /\ [][NextSorted]_vars

(***************************************************************************)
(* The material preparation on its own, over a range of inputs.            *)
(***************************************************************************)
\* What the calls are made with. Opacities, in thousandths: out of range,
\* at and next to both thresholds, and in between. Default-family
\* materials: opaque, half transparent, nearly invisible, blending,
\* transmissive, one whose own opacity is at the minimum, one with a blend
\* mode. Custom materials by their render flags. The flags a model hands
\* over (renderableFlagsForModel).
MaterialSamples ==
    [inOpacity |-> {-100, 0, 5, 9, 10, 11, 20, 500, 989, 990, 991, 1000, 1200},
     defaultMaterial |->
        {MatOpaque, MatHalf, MatInvisible, MatBlend, MatTransmission,
         Material("DefaultMaterial", 10, "SourceOver", FALSE, "Default", FALSE, 0),
         Material("PrincipledMaterial", 1000, "Screen", FALSE, "Default", FALSE, 0)},
     customMaterial |->
        {CustomMaterial({}), CustomMaterial({"Blending"}), CustomMaterial({"ScreenTexture"})},
     inExistingFlags |-> {{}, {"ReceivesShadows"}, {"HasTransparency", "ReceivesShadows"}}]

\* One call of prepareDefaultMaterialForRender; nothing of the layer data
\* changes but the frame flags, which the caller holds.
callPrepareDefaultMaterialForRender ==
    /\ \E inMaterial \in MaterialSamples.defaultMaterial,
          inExistingFlags \in MaterialSamples.inExistingFlags,
          inOpacity \in MaterialSamples.inOpacity :
          ret' = Ret("prepareDefaultMaterialForRender", TRUE,
                     [inMaterial |-> inMaterial,
                      inExistingFlags |-> inExistingFlags,
                      inOpacity |-> inOpacity,
                      result |-> prepareDefaultMaterialForRender(
                                     inMaterial, inExistingFlags, inOpacity, {})])
    /\ UNCHANGED <<sceneVars, dataVars>>

\* One call of prepareCustomMaterialForRender.
callPrepareCustomMaterialForRender ==
    /\ \E inMaterial \in MaterialSamples.customMaterial,
          inExistingFlags \in MaterialSamples.inExistingFlags,
          inOpacity \in MaterialSamples.inOpacity :
          ret' = Ret("prepareCustomMaterialForRender", TRUE,
                     [inMaterial |-> inMaterial,
                      inExistingFlags |-> inExistingFlags,
                      inOpacity |-> inOpacity,
                      result |-> prepareCustomMaterialForRender(
                                     inMaterial, inExistingFlags, inOpacity, {})])
    /\ UNCHANGED <<sceneVars, dataVars>>

NextMaterial ==
    \/ callPrepareDefaultMaterialForRender
    \/ callPrepareCustomMaterialForRender

SpecMaterial == Init /\ [][NextMaterial]_vars

(***************************************************************************)
(* QSSGShaderLibraryManager::compare over shader keys.                     *)
(***************************************************************************)
\* Keys by the values of their properties. Of the eight single-valued
\* properties COMPARE_PROP looks at, the first and the last are kept, then
\* the light count and one light slot with its four flag bits; the others
\* are compared the same way and are equal in all keys here.
ShaderKeys ==
    [m_hasLighting : 0 .. 1, m_alphaMode : 0 .. 1, m_lightCount : {1},
     m_lightFlags : [{0} -> {1}],
     m_lightSpotFlags : [{0} -> {0}],
     m_lightAreaFlags : [{0} -> {0}],
     m_lightShadowFlags : [{0} -> 0 .. 1]]

calcLightPoint(key, i) ==
    key.m_lightFlags[i] + key.m_lightSpotFlags[i] * 2
    + key.m_lightAreaFlags[i] * 4 + key.m_lightShadowFlags[i] * 8

\* Every COMPARE_PROP returns true when its property is smaller in key1 and
\* falls through otherwise, and so does the comparison of the light points;
\* false is returned when nothing was smaller.
compare(key1, key2) ==
    \/ key1.m_hasLighting < key2.m_hasLighting
    \/ key1.m_alphaMode < key2.m_alphaMode
    \/ key1.m_lightCount < key2.m_lightCount
    \/ \E i \in DOMAIN key1.m_lightFlags : calcLightPoint(key1, i) < calcLightPoint(key2, i)

\* One call of compare.
callCompare ==
    /\ \E key1, key2 \in ShaderKeys :
          ret' = Ret("compare", TRUE,
                     [key1 |-> key1, key2 |-> key2, result |-> compare(key1, key2)])
    /\ UNCHANGED <<sceneVars, dataVars>>

(***************************************************************************)
(* QSSGShaderLibraryManager: the calls of several threads on one library.  *)
(* shaderLibrary.calls[t] is the stack of thread t's calls under way, the  *)
(* innermost last; a call is at "lock" before its locker is constructed,   *)
(* at "locked" while it holds m_lock, at "resolve" in resolveIncludeFiles. *)
(***************************************************************************)
\* The threads, the per-stage key the shader sources are stored and looked
\* up under, and the include files with the includes their text names.
ShaderCalls ==
    [threads |-> {1, 2},
     perStageKey |-> "Vshader",
     includes |-> [funcs |-> <<"lights", "math">>, lights |-> <<"math">>, math |-> <<>>]]

\* The innermost call of a thread.
currentCall(t) == shaderLibrary.calls[t][Len(shaderLibrary.calls[t])]

\* A thread that is in no call enters one of the four operations.
beginCall(t, op, key) ==
    /\ shaderLibrary.calls[t] = <<>>
    /\ shaderLibrary' = [shaderLibrary EXCEPT
                            !.calls[t] = <<[op |-> op, pc |-> "lock", key |-> key,
                                            rest |-> <<>>]>>]
    /\ ret' = Ret(op, FALSE, t)
    /\ UNCHANGED <<nodes, layer, rhi, unresolvedMeshes, edits, dataVars>>

\* "QWriteLocker locker(&m_lock)" of setShaderSource and getIncludeContents:
\* the thread goes on once nobody holds the lock.
QWriteLocker(t) ==
    /\ shaderLibrary.calls[t] # <<>>
    /\ currentCall(t).pc = "lock"
    /\ currentCall(t).op \in {"setShaderSource", "getIncludeContents"}
    /\ shaderLibrary.lock = [writer |-> 0, readers |-> {}]
    /\ shaderLibrary' = [shaderLibrary EXCEPT
                            !.lock.writer = t,
                            !.calls[t][Len(shaderLibrary.calls[t])].pc = "locked"]
    /\ ret' = Ret("QWriteLocker", TRUE, t)
    /\ UNCHANGED <<nodes, layer, rhi, unresolvedMeshes, edits, dataVars>>

\* "QReadLocker locker(&m_lock)" of getShaderSource and getShaderMetaData:
\* the thread goes on once no writer holds the lock.
QReadLocker(t) ==
    /\ shaderLibrary.calls[t] # <<>>
    /\ currentCall(t).pc = "lock"
    /\ currentCall(t).op \in {"getShaderSource", "getShaderMetaData"}
    /\ shaderLibrary.lock.writer = 0
    /\ shaderLibrary' = [shaderLibrary EXCEPT
                            !.lock.readers = @ \cup {t},
                            !.calls[t][Len(shaderLibrary.calls[t])].pc = "locked"]
    /\ ret' = Ret("QReadLocker", TRUE, t)
    /\ UNCHANGED <<nodes, layer, rhi, unresolvedMeshes, edits, dataVars>>

\* The body of setShaderSource under the lock, and its return, which
\* destroys the locker.
setShaderSource(t) ==
    /\ shaderLibrary.calls[t] # <<>>
    /\ currentCall(t).pc = "locked"
    /\ currentCall(t).op = "setShaderSource"
    /\ shaderLibrary' = [shaderLibrary EXCEPT
                            !.expandedFiles = @ \cup {currentCall(t).key},
                            !.lock.writer = 0,
                            !.calls[t] = SubSeq(@, 1, Len(@) - 1)]
    /\ ret' = Ret("setShaderSource", TRUE, t)
    /\ UNCHANGED <<nodes, layer, rhi, unresolvedMeshes, edits, dataVars>>

\* The body of getShaderSource, and of getShaderMetaData, under the lock
\* and its return: the lookup, found or not.
getShaderSource(t) ==
    /\ shaderLibrary.calls[t] # <<>>
    /\ currentCall(t).pc = "locked"
    /\ currentCall(t).op \in {"getShaderSource", "getShaderMetaData"}
    /\ shaderLibrary' = [shaderLibrary EXCEPT
                            !.lock.readers = @ \ {t},
                            !.calls[t] = SubSeq(@, 1, Len(@) - 1)]
    /\ ret' = Ret(currentCall(t).op, currentCall(t).key \in shaderLibrary.expandedFiles, t)
    /\ UNCHANGED <<nodes, layer, rhi, unresolvedMeshes, edits, dataVars>>

\* A variant of getIncludeContents that goes to resolveIncludeFiles without
\* unlocking.
getIncludeContentsLocked(t) ==
    /\ shaderLibrary.calls[t] # <<>>
    /\ currentCall(t).pc = "locked"
    /\ currentCall(t).op = "getIncludeContents"
    /\ shaderLibrary' = [shaderLibrary EXCEPT
                            !.expandedFiles = @ \cup {currentCall(t).key},
                            !.calls[t][Len(shaderLibrary.calls[t])] =
                                [@ EXCEPT !.pc = "resolve",
                                          !.rest = ShaderCalls.includes[currentCall(t).key]]]
    /\ ret' = Ret("getIncludeContents", TRUE, t)
    /\ UNCHANGED <<nodes, layer, rhi, unresolvedMeshes, edits, dataVars>>

\* getIncludeContents under the lock: the lookup, on a miss the read of the
\* file and the insert, then "locker.unlock()"; the call goes on in
\* resolveIncludeFiles with the includes of the text.
getIncludeContents(t) ==
    /\ shaderLibrary.calls[t] # <<>>
    /\ currentCall(t).pc = "locked"
    /\ currentCall(t).op = "getIncludeContents"
    /\ shaderLibrary' = [shaderLibrary EXCEPT
                            !.expandedFiles = @ \cup {currentCall(t).key},
                            !.lock.writer = 0,
                            !.calls[t][Len(shaderLibrary.calls[t])] =
                                [@ EXCEPT !.pc = "resolve",
                                          !.rest = ShaderCalls.includes[currentCall(t).key]]]
    /\ ret' = Ret("getIncludeContents", TRUE, t)
    /\ UNCHANGED <<nodes, layer, rhi, unresolvedMeshes, edits, dataVars>>

\* One round of the loop of resolveIncludeFiles: the next include is
\* fetched with getIncludeContents; with no include left the call returns.
resolveIncludeFiles(t) ==
    /\ shaderLibrary.calls[t] # <<>>
    /\ currentCall(t).pc = "resolve"
    /\ shaderLibrary' = [shaderLibrary EXCEPT
                            !.calls[t] =
                                IF currentCall(t).rest = <<>>
                                THEN SubSeq(@, 1, Len(@) - 1)
                                ELSE Append([@ EXCEPT ![Len(@)].rest = Tail(@)],
                                            [op |-> "getIncludeContents", pc |-> "lock",
                                             key |-> Head(currentCall(t).rest),
                                             rest |-> <<>>])]
    /\ ret' = Ret("resolveIncludeFiles", currentCall(t).rest = <<>>, t)
    /\ UNCHANGED <<nodes, layer, rhi, unresolvedMeshes, edits, dataVars>>

NextShaderLibrary ==
    \E t \in ShaderCalls.threads :
        \/ \E op \in {"setShaderSource", "getShaderSource", "getShaderMetaData"} :
              beginCall(t, op, ShaderCalls.perStageKey)
        \/ \E key \in DOMAIN ShaderCalls.includes : beginCall(t, "getIncludeContents", key)
        \/ QWriteLocker(t)
        \/ QReadLocker(t)
        \/ setShaderSource(t)
        \/ getShaderSource(t)
        \/ getIncludeContents(t)
        \/ resolveIncludeFiles(t)

SpecShaderLibrary == Init /\ [][NextShaderLibrary]_vars

(***************************************************************************)
(* Level of detail (prepareModelForRender).                                *)
(***************************************************************************)
\* The distance of the subset's bounds from the camera plane: 0 when the
\* plane cuts the bounds, the nearer support point's distance otherwise;
\* constant for an orthographic camera.
lodDistanceThreshold(cameraType, distanceMin, distanceMax) ==
    IF cameraType # "OrthographicCamera"
    THEN IF distanceMin * distanceMax < 0 THEN 0
         ELSE IF distanceMin >= 0 THEN distanceMin
         ELSE IF distanceMax <= 0 THEN -distanceMax
         ELSE 0
    ELSE 1

\* "screenSize > lodThreshold" for screenSize = subsetDistance / threshold
\* and subsetDistance = distance * modelScale * (1 / levelOfDetailBias),
\* levelOfDetailBias > 0 and threshold >= 0, in exact arithmetic. A
\* threshold of 0 divides by zero: the quotient is +infinity for a positive
\* subsetDistance, which is greater, and not a number for a subsetDistance
\* of 0, which is not greater than anything.
screenSizeExceeds(distance, modelScale, levelOfDetailBias, threshold, lodThreshold) ==
    IF threshold = 0
    THEN distance * modelScale > 0
    ELSE distance * modelScale > lodThreshold * threshold * levelOfDetailBias

\* "Level Of Detail": subsetLevelOfDetail of a subset with the LOD
\* distances lods. The loop leaves at the first level whose screen size
\* exceeds lodThreshold; currentLod is the level before it.
subsetLevelOfDetail(lods, lodThreshold, lodDistanceMultiplier, distanceThreshold, modelScale, levelOfDetailBias) ==
    IF lods # <<>> /\ lodThreshold > 0
    THEN IF levelOfDetailBias > 0
         THEN LET exceeding == {i \in DOMAIN lods :
                                  screenSizeExceeds(lods[i], modelScale, levelOfDetailBias,
                                                    distanceThreshold * lodDistanceMultiplier,
                                                    lodThreshold)}
              IN IF exceeding = {} THEN Len(lods)
                 ELSE (CHOOSE i \in exceeding : \A j \in exceeding : i <= j) - 1
         ELSE 0
    ELSE 0

\* What the level of detail is computed from, over small ranges: LOD
\* distances (none, increasing ones, with a first distance of 0), the
\* camera's threshold and multiplier, the camera type, the distances of the
\* two support points of the bounds from the camera plane (the nearer one
\* and the depth of the bounds), the model's scale and bias.
LodSamples ==
    [lods : {<<>>, <<2, 4, 8>>, <<0, 3>>},
     lodThreshold : {0, 1},
     lodDistanceMultiplier : {2},
     cameraType : {"PerspectiveCamera", "OrthographicCamera"},
     distanceMin : {-3, -1, 0, 2},
     depth : {0, 2},
     modelScale : {0, 1},
     levelOfDetailBias : {0, 2}]

\* The level of detail of one subset in one frame.
callSubsetLevelOfDetail ==
    /\ \E in \in LodSamples :
          ret' = Ret("subsetLevelOfDetail", TRUE,
                     [in |-> in,
                      result |-> subsetLevelOfDetail(
                                     in.lods, in.lodThreshold, in.lodDistanceMultiplier,
                                     lodDistanceThreshold(in.cameraType, in.distanceMin,
                                                          in.distanceMin + in.depth),
                                     in.modelScale, in.levelOfDetailBias)])
    /\ UNCHANGED <<sceneVars, dataVars>>

(***************************************************************************)
(* Frustum culling in place.                                               *)
(***************************************************************************)
\* The longest list the culling is called with.
MaxRenderables == 3

RECURSIVE frustumCullingLoopStrict(_, _, _, _)
\* A variant of the loop that stops when the two cursors meet, one entry
\* short.
frustumCullingLoopStrict(clipFrustum, renderables, front, back) ==
    IF front < back
    THEN IF renderables[front + 1] \in clipFrustum
         THEN frustumCullingLoopStrict(clipFrustum, renderables, front + 1, back)
         ELSE frustumCullingLoopStrict(
                  clipFrustum,
                  [renderables EXCEPT ![front + 1] = renderables[back + 1],
                                      ![back + 1] = renderables[front + 1]],
                  front, back - 1)
    ELSE [renderables |-> renderables, result |-> back + 1]

RECURSIVE frustumCullingLoop(_, _, _, _)
\* "while (front <= back)" with its body and the return that follows it.
\* front and back are the 0-based cursors of the code.  A handle stands for
\* its object, and the frustum for the set of objects whose globalBounds it
\* intersects: clipFrustum.intersectsWith(b) is membership in that set.
frustumCullingLoop(clipFrustum, renderables, front, back) ==
    IF front <= back
    THEN IF renderables[front + 1] \in clipFrustum
         THEN frustumCullingLoop(clipFrustum, renderables, front + 1, back)
         ELSE frustumCullingLoop(
                  clipFrustum,
                  [renderables EXCEPT ![front + 1] = renderables[back + 1],
                                      ![back + 1] = renderables[front + 1]],
                  front, back - 1)
    ELSE [renderables |-> renderables, result |-> back + 1]

\* QSSGLayerRenderData::frustumCullingInline: the list it leaves and the
\* count it returns.
frustumCullingInline(clipFrustum, renderables) ==
    frustumCullingLoop(clipFrustum, renderables, 0, Len(renderables) - 1)

\* A call with every list of up to MaxRenderables handles of three objects,
\* repeated handles included, and every frustum over these objects.
callFrustumCullingInline ==
    /\ \E clipFrustum \in SUBSET (1 .. 3) :
       \E renderables \in UNION {[1 .. n -> 1 .. 3] : n \in 0 .. MaxRenderables} :
          ret' = Ret("frustumCullingInline", TRUE,
                     [clipFrustum |-> clipFrustum, renderables |-> renderables,
                      out |-> frustumCullingInline(clipFrustum, renderables)])
    /\ UNCHANGED <<sceneVars, dataVars>>

\* The helpers of the renderer that depend on their arguments alone, each
\* called with a range of arguments.
NextHelpers ==
    \/ callCompare
    \/ callSubsetLevelOfDetail
    \/ callFrustumCullingInline

SpecHelpers == Init /\ [][NextHelpers]_vars

(***************************************************************************)
(* Properties.                                                             *)
(***************************************************************************)
\* The state a prepareForRender that got past its guard leaves behind.
JustPrepared == ret.op = "prepareForRender" /\ ret.ran

\* How often a record of the frame is referred to by a bucket.
Occurrences(bucket, k) == Cardinality({i \in DOMAIN bucket : bucket[i].obj = k})

\* C1: after prepareForRender every record created in the frame is in
\* exactly one of the three buckets, once: in screenTextureObjects if its
\* flags have RequiresScreenTexture, otherwise in transparentObjects if they
\* have HasTransparency, otherwise in opaqueObjects; and the buckets refer to
\* nothing but the frame's records.
C1_BucketPartition ==
    layerPrepResult.has =>
        /\ \A k \in DOMAIN frameObjects :
              LET f == frameObjects[k].renderableFlags
                  want == IF "RequiresScreenTexture" \in f THEN <<1, 0, 0>>
                          ELSE IF "HasTransparency" \in f THEN <<0, 1, 0>>
                          ELSE <<0, 0, 1>>
              IN <<Occurrences(screenTextureObjects, k),
                   Occurrences(transparentObjects, k),
                   Occurrences(opaqueObjects, k)>> = want
        /\ \A b \in {screenTextureObjects, transparentObjects, opaqueObjects} :
              \A i \in DOMAIN b : b[i].obj \in DOMAIN frameObjects

\* A frame with records in all three buckets, particles among them, and a
\* record that is both transparent and a consumer of the screen texture.
C1_Witness ==
    /\ layerPrepResult.has
    /\ opaqueObjects # <<>> /\ transparentObjects # <<>> /\ screenTextureObjects # <<>>
    /\ \E i \in DOMAIN opaqueObjects : frameObjects[opaqueObjects[i].obj].type = "Particles"
    /\ \E i \in DOMAIN transparentObjects :
          frameObjects[transparentObjects[i].obj].type = "Particles"
    /\ \E i \in DOMAIN screenTextureObjects :
          {"RequiresScreenTexture", "HasTransparency"}
              \subseteq frameObjects[screenTextureObjects[i].obj].renderableFlags

\* C2: a prepareForRender called while the layer is prepared changes nothing:
\* not the preparation result, the buckets, the lights, the passes, the
\* camera or the classified lists, and not the scene either, whatever the
\* front end has changed since the first call.
C2_SecondPrepareIsNoOp ==
    [][(layerPrepResult.has /\ ret'.op = "prepareForRender")
          => UNCHANGED <<sceneVars, dataVars>>]_vars

\* A second call made after group A was hidden, with A's models still in the
\* classified list and the subtree still dirty.
C2_Witness ==
    /\ ret.op = "prepareForRender" /\ ~ret.ran
    /\ layerPrepResult.has
    /\ ~nodes[2].active /\ nodes[3].dirty
    /\ \E i \in DOMAIN renderableModels : renderableModels[i].node = 3

\* The passes in their fixed order.
PassOrder ==
    <<"depthMapPass", "ssaoMapPass", "shadowMapPass", "reflectionMapPass",
      "zPrePassPass", "screenMapPass", "mainPass">>

\* Whether the frame's flags and lights ask for a pass.
PassWanted(p) ==
    CASE p = "depthMapPass" -> "RequiresDepthTexture" \in layerPrepResult.flags
      [] p = "ssaoMapPass" -> "RequiresSsaoPass" \in layerPrepResult.flags
      [] p = "shadowMapPass" ->
            \E i \in DOMAIN locals.renderableLights : locals.renderableLights[i].shadows
      [] p = "screenMapPass" -> "RequiresScreenTexture" \in layerPrepResult.flags
      [] OTHER -> TRUE

\* C3: after a prepareForRender that ran, activePasses is the fixed sequence
\* depthMap, ssaoMap, shadowMap, reflectionMap, zPrePass, screenMap, main
\* with exactly the passes the frame asks for (shadowMap iff some selected
\* light got a shadow map), none twice, main last; one shadow-casting light
\* and no depth, AO or screen-texture consumer give shadowMap,
\* reflectionMap, zPrePass, main.
C3_PassOrder ==
    layerPrepResult.has =>
        /\ activePasses = SelectSeq(PassOrder, PassWanted)
        /\ \A i, j \in DOMAIN activePasses : activePasses[i] = activePasses[j] => i = j
        /\ activePasses[Len(activePasses)] = "mainPass"
        /\ ( /\ Cardinality({i \in DOMAIN locals.renderableLights :
                                locals.renderableLights[i].shadows}) = 1
             /\ layerPrepResult.flags \cap {"RequiresDepthTexture", "RequiresSsaoPass",
                                            "RequiresScreenTexture"} = {}
             => activePasses = <<"shadowMapPass", "reflectionMapPass",
                                 "zPrePassPass", "mainPass">> )

\* The frame of one shadow-casting light and no consumer of depth, AO or
\* screen texture.
C3_Witness ==
    /\ layerPrepResult.has
    /\ Len(locals.renderableLights) = 1 /\ locals.renderableLights[1].shadows
    /\ opaqueObjects # <<>>
    /\ activePasses = <<"shadowMapPass", "reflectionMapPass", "zPrePassPass", "mainPass">>

\* C4: whenever ssaoMapPass is among the active passes, depthMapPass is too
\* and comes before it, whether the AO requirement comes from the layer's
\* SSAO setting or from a custom material with the AoTexture capability.
C4_AoAfterDepth ==
    \A i \in DOMAIN activePasses :
        activePasses[i] = "ssaoMapPass"
            => \E j \in 1 .. i - 1 : activePasses[j] = "depthMapPass"

\* A frame whose AO pass comes from a custom material alone: the layer has
\* SSAO off and no effect asks for depth.
C4_Witness ==
    /\ JustPrepared
    /\ ~layer.ssaoEnabled /\ ~layer.effectRequiresDepthTexture
    /\ \E i \in DOMAIN activePasses : activePasses[i] = "ssaoMapPass"

\* The lights the last prepareForRender selected, in selection order.
Selected == [i \in DOMAIN locals.renderableLights |-> locals.renderableLights[i].light]

\* The light lists the frame handed to its nodes, and the global one.
HandedOut ==
    {renderableModels[i].lights : i \in DOMAIN renderableModels}
    \cup {renderableParticles[i].lights : i \in DOMAIN renderableParticles}
    \cup {globalLights}

\* C5: with N classified lights prepareForRender selects min(N, L_max) of
\* them, L_max being the reduced budget when ReduceMaxNumLights is set and
\* the full one otherwise: the most recently classified ones, last
\* classified first; a light beyond the cap is in no node's light list.
C5_LightBudget ==
    layerPrepResult.has =>
        LET count == Len(lights)
            L_max == IF "ReduceMaxNumLights" \in features
                     THEN QSSG_REDUCED_MAX_NUM_LIGHTS ELSE QSSG_MAX_NUM_LIGHTS
            taken == IF count < L_max THEN count ELSE L_max
        IN /\ Len(Selected) = taken
           /\ \A i \in 1 .. taken : Selected[i] = lights[count - i + 1]
           /\ \A l \in HandedOut : \A i \in DOMAIN l :
                 \E j \in count - taken + 1 .. count : l[i].light = lights[j]

\* A frame with more lights than the full budget, the oldest ones dropped,
\* and models that were handed lights.
C5_Witness ==
    /\ layerPrepResult.has
    /\ "ReduceMaxNumLights" \notin features
    /\ Len(lights) > QSSG_MAX_NUM_LIGHTS
    /\ Len(Selected) = QSSG_MAX_NUM_LIGHTS
    /\ \E i \in DOMAIN renderableModels : renderableModels[i].lights # <<>>

\* Whether the i-th selected light is configured to cast shadows and is not
\* fully baked.
Eligible(i) ==
    SceneGraph[Selected[i]].castShadow /\ ~SceneGraph[Selected[i]].fullyBaked

\* C6: of the M eligible selected lights exactly min(M, S_max) get
\* shadows = true and a shadow-map entry, the first ones in selection order,
\* and no light that is not eligible gets one.
C6_ShadowBudget ==
    layerPrepResult.has =>
        LET sel == locals.renderableLights
            S_max == QSSG_MAX_NUM_SHADOW_MAPS
            M == Cardinality({i \in DOMAIN sel : Eligible(i)})
            shadowed == {i \in DOMAIN sel : sel[i].shadows}
            entries == locals.shadowMapEntries
        IN /\ Cardinality(shadowed) = (IF M < S_max THEN M ELSE S_max)
           /\ \A i \in DOMAIN sel :
                 sel[i].shadows <=>
                    /\ Eligible(i)
                    /\ Cardinality({j \in 1 .. i - 1 : Eligible(j)}) < S_max
           /\ {entries[e].lightIdx + 1 : e \in DOMAIN entries} = shadowed
           /\ Len(entries) = Cardinality(shadowed)
           /\ \A e \in DOMAIN entries : entries[e].light = Selected[entries[e].lightIdx + 1]

\* A frame with more eligible lights than shadow maps, an eligible light left
\* without one and a light that is not eligible among the selected.
C6_Witness ==
    /\ layerPrepResult.has
    /\ Cardinality({i \in DOMAIN Selected : Eligible(i)}) > QSSG_MAX_NUM_SHADOW_MAPS
    /\ \E i \in DOMAIN Selected : Eligible(i) /\ ~locals.renderableLights[i].shadows
    /\ \E i \in DOMAIN Selected : ~Eligible(i)
    /\ Len(locals.shadowMapEntries) = QSSG_MAX_NUM_SHADOW_MAPS

RECURSIVE VisibleInScene(_)
\* Whether the node and all its ancestors below the layer are set active.
VisibleInScene(n) == n = LayerId \/ (nodes[n].active /\ VisibleInScene(Parent(n)))

\* C7: with an explicit camera prepareForRender selects it when it is
\* active and no camera when it is not, whatever the classified cameras are;
\* without one it selects the first active camera of the classified list, or
\* none; layer.renderedCamera is the selected camera.
C7_CameraSelection ==
    JustPrepared =>
        LET active == SelectSeq(cameras, VisibleInScene)
        IN /\ layer.explicitCamera # 0 =>
                 /\ nodes[layer.explicitCamera].globalActive
                       = VisibleInScene(layer.explicitCamera)
                 /\ camera = (IF VisibleInScene(layer.explicitCamera)
                              THEN layer.explicitCamera ELSE 0)
           /\ layer.explicitCamera = 0 =>
                 camera = (IF active = <<>> THEN 0 ELSE active[1])
           /\ layer.renderedCamera = camera

\* An explicit camera that is hidden while the classified list holds a
\* visible camera: no camera is selected.
C7_Witness ==
    /\ JustPrepared
    /\ layer.explicitCamera # 0
    /\ ~VisibleInScene(layer.explicitCamera)
    /\ \E i \in DOMAIN cameras : VisibleInScene(cameras[i])
    /\ camera = 0 /\ layer.renderedCamera = 0

\* The cameras the last prepareForRender called setupCameraForRender on.
SetUp == {locals.setup[i] : i \in DOMAIN locals.setup}

\* C8 as stated: in the implicit search every camera of the classified list
\* is set up during prepareForRender, those after the selected one included.
C8_EveryCameraSetUp ==
    (JustPrepared /\ layer.explicitCamera = 0) =>
        \A i \in DOMAIN cameras : cameras[i] \in SetUp

\* C8, amended: in the implicit search the cameras of the classified list are
\* set up in traversal order up to and including the selected one, each
\* once (all of them when none is selected), and no camera after the
\* selected one is set up.
C8_CamerasSetUpUntilSelected ==
    (JustPrepared /\ layer.explicitCamera = 0) =>
        \E k \in 0 .. Len(cameras) :
            /\ locals.setup = SubSeq(cameras, 1, k)
            /\ IF camera = 0 THEN k = Len(cameras)
               ELSE k >= 1 /\ cameras[k] = camera
            /\ \A i \in 1 .. k - 1 : ~nodes[cameras[i]].globalActive
            /\ \A i \in k + 1 .. Len(cameras) : cameras[i] \notin SetUp

\* An implicit search over two classified cameras: the first is selected and
\* set up, the second is not set up.
C8_Witness ==
    /\ JustPrepared /\ layer.explicitCamera = 0
    /\ Len(cameras) = 2
    /\ camera = cameras[1]
    /\ cameras[2] \notin SetUp

RECURSIVE Ancestors(_)
\* The ancestors of a node below the layer.
Ancestors(n) == IF Parent(n) = LayerId THEN {} ELSE {Parent(n)} \cup Ancestors(Parent(n))

\* The nodes of the typed lists the classification fills.
Classified ==
    {renderableModels[i].node : i \in DOMAIN renderableModels}
    \cup {renderableParticles[i].node : i \in DOMAIN renderableParticles}
    \cup {renderableItem2Ds[i] : i \in DOMAIN renderableItem2Ds}
    \cup {cameras[i] : i \in DOMAIN cameras}
    \cup {lights[i] : i \in DOMAIN lights}
    \cup {reflectionProbes[i] : i \in DOMAIN reflectionProbes}

\* The nodes the last traversal gave a depth-first index.
Visited == {locals.visited[i] : i \in DOMAIN locals.visited}

\* C9: a node whose Active global state is false is in no typed list and got
\* no depth-first index, and none of its descendants was visited, put in a
\* list or recomputed by the traversal; every node in a typed list is active
\* and so are all its ancestors below the layer.  The depth-first indices
\* given are 1, 2, ... in the order of the visit.
C9_InactiveSubtreesSkipped ==
    JustPrepared =>
        /\ \A n \in Nodes : ~nodes[n].globalActive =>
              /\ n \notin Classified /\ n \notin Visited
              /\ \A d \in Nodes : n \in Ancestors(d) =>
                    d \notin Visited /\ d \notin Classified /\ d \notin locals.recomputed
        /\ \A n \in Nodes : ~VisibleInScene(n) =>
              n \notin Classified /\ n \notin Visited
        /\ \A n \in Classified :
              /\ nodes[n].active /\ nodes[n].globalActive
              /\ \A a \in Ancestors(n) : nodes[a].active /\ nodes[a].globalActive
        /\ \A i \in DOMAIN locals.visited : nodes[locals.visited[i]].dfsIndex = i

\* Group A hidden after a frame that classified it: the group got no index,
\* its models, its camera and the nested group's model are in no list and
\* the nested model is still dirty, while group B was classified.
C9_Witness ==
    /\ JustPrepared
    /\ ~nodes[2].active /\ ~nodes[2].globalActive
    /\ nodes[2].dfsIndex > 0 /\ 2 \notin Visited
    /\ nodes[11].dirty /\ 11 \notin Classified /\ 11 \notin locals.recomputed
    /\ 14 \in Classified

\* How often a handle is in a list.
Count(list, h) == Cardinality({i \in DOMAIN list : list[i] = h})

\* C10: with a camera resolved, depth testing enabled and a non-empty opaque
\* bucket, getSortedOpaqueRenderableObjects returns a permutation of
\* opaqueObjects that is non-decreasing in cameraDistanceSq.
C10_OpaqueSortedFrontToBack ==
    ( /\ ret.op = "getSortedOpaqueRenderableObjects"
      /\ camera # 0 /\ layer.enableDepthTest /\ opaqueObjects # <<>> ) =>
        /\ Len(ret.val) = Len(opaqueObjects)
        /\ \A i \in DOMAIN opaqueObjects :
              Count(ret.val, opaqueObjects[i]) = Count(opaqueObjects, opaqueObjects[i])
        /\ \A i \in 1 .. Len(ret.val) - 1 :
              ret.val[i].cameraDistanceSq <= ret.val[i + 1].cameraDistanceSq

\* A call that returned the opaque bucket in another order than it was
\* filled in, two of its records being equally far from the camera.
C10_Witness ==
    /\ ret.op = "getSortedOpaqueRenderableObjects"
    /\ camera # 0 /\ layer.enableDepthTest
    /\ Len(opaqueObjects) >= 4
    /\ ret.val # opaqueObjects /\ ret.val = renderedOpaqueObjects
    /\ \E i \in 1 .. Len(ret.val) - 1 :
          ret.val[i].cameraDistanceSq = ret.val[i + 1].cameraDistanceSq

\* C11 as stated: with a camera resolved and depth testing disabled,
\* getSortedOpaqueRenderableObjects returns the opaque bucket, the same
\* records in the same order.
C11_OpaqueBucketReturnedUnsorted ==
    ( /\ ret.op = "getSortedOpaqueRenderableObjects"
      /\ camera # 0 /\ ~layer.enableDepthTest ) =>
        ret.val = opaqueObjects

\* C11, amended: with a camera resolved and depth testing disabled,
\* getSortedOpaqueRenderableObjects neither copies nor sorts the opaque
\* bucket; it returns renderedOpaqueObjects, which is empty, whatever the
\* bucket holds.
C11_OpaqueViewEmptyWithoutDepthTest ==
    ( /\ ret.op = "getSortedOpaqueRenderableObjects"
      /\ camera # 0 /\ ~layer.enableDepthTest ) =>
        /\ ret.val = <<>>
        /\ renderedOpaqueObjects = <<>>

\* A call with a camera, no depth test and a filled opaque bucket that
\* returned the empty list.
C11_Witness ==
    /\ ret.op = "getSortedOpaqueRenderableObjects"
    /\ camera # 0 /\ ~layer.enableDepthTest
    /\ Len(opaqueObjects) >= 2
    /\ ret.val = <<>>

\* What the transparent view is made from: the transparent bucket, followed
\* by the opaque one when the layer has no depth test.
TransparentViewSource ==
    transparentObjects \o (IF layer.enableDepthTest THEN <<>> ELSE opaqueObjects)

\* C12: with a camera resolved, getSortedTransparentRenderableObjects returns
\* a list that is non-increasing in cameraDistanceSq and a permutation of
\* transparentObjects when depth testing is enabled, of transparentObjects
\* followed by opaqueObjects when it is disabled.
C12_TransparentSortedBackToFront ==
    (ret.op = "getSortedTransparentRenderableObjects" /\ camera # 0) =>
        /\ Len(ret.val) = Len(TransparentViewSource)
        /\ \A i \in DOMAIN TransparentViewSource :
              Count(ret.val, TransparentViewSource[i])
                 = Count(TransparentViewSource, TransparentViewSource[i])
        /\ \A i \in 1 .. Len(ret.val) - 1 :
              ret.val[i].cameraDistanceSq >= ret.val[i + 1].cameraDistanceSq

\* A call without depth test that returned transparent and opaque records
\* together, in another order than the buckets hold them.
C12_Witness ==
    /\ ret.op = "getSortedTransparentRenderableObjects"
    /\ camera # 0 /\ ~layer.enableDepthTest
    /\ transparentObjects # <<>> /\ Len(opaqueObjects) >= 2
    /\ Len(ret.val) = Len(transparentObjects) + Len(opaqueObjects)
    /\ ret.val # transparentObjects \o opaqueObjects


\* The positions in the returned 2D list of two items of one parent.
SiblingItems(list) ==
    { pr \in (DOMAIN list) \X (DOMAIN list) :
        pr[1] # pr[2] /\ Parent(list[pr[1]]) = Parent(list[pr[2]]) }

\* The position of an item in a list that holds it once.
IndexOf(list, item) == CHOOSE i \in DOMAIN list : list[i] = item

(***************************************************************************)
(* C13: in the list getRenderableItem2Ds returns, two 2D items of the same *)
(* parent node appear in ascending zOrder: the one with the smaller zOrder *)
(* comes first, whatever other items lie between them.                     *)
(***************************************************************************)
C13_SiblingsInZOrder ==
    ret.op = "getRenderableItem2Ds" =>
        \A pr \in SiblingItems(ret.val) :
            SceneGraph[ret.val[pr[1]]].zOrder < SceneGraph[ret.val[pr[2]]].zOrder
                => pr[1] < pr[2]

(***************************************************************************)
(* C14: two 2D items of the same parent node with equal zOrder are in the  *)
(* list getRenderableItem2Ds returns in the order they have in             *)
(* renderableItem2Ds.                                                      *)
(***************************************************************************)
C14_TiedSiblingsKeepOrder ==
    (ret.op = "getRenderableItem2Ds" /\ camera # 0) =>
        \A pr \in SiblingItems(ret.val) :
            SceneGraph[ret.val[pr[1]]].zOrder = SceneGraph[ret.val[pr[2]]].zOrder
                => ( pr[1] < pr[2] <=>
                     IndexOf(renderableItem2Ds, ret.val[pr[1]])
                        < IndexOf(renderableItem2Ds, ret.val[pr[2]]) )


SortedAccessors ==
    {"getSortedOpaqueRenderableObjects", "getSortedTransparentRenderableObjects",
     "getSortedScreenTextureRenderableObjects", "getRenderableItem2Ds",
     "getSortedRenderedDepthWriteObjects", "getSortedrenderedOpaqueDepthPrepassObjects"}

\* The pairs of depth-write list and depth-prepass list a call of one of the
\* two depth accessors can leave behind in the current state.
DepthListResults ==
    IF renderedDepthWriteObjects # <<>> \/ renderedOpaqueDepthPrepassObjects # <<>>
       \/ ~layer.enableDepthTest
    THEN {<<renderedDepthWriteObjects, renderedOpaqueDepthPrepassObjects>>}
    ELSE {<<depthWriteObjectsOf(s[1], TRUE) \o depthWriteObjectsOf(s[2], FALSE)
                \o depthWriteObjectsOf(s[3], TRUE),
            depthPrepassObjectsOf(s[1]) \o depthPrepassObjectsOf(s[2])
                \o depthPrepassObjectsOf(s[3])>> :
            s \in sortedOpaqueRenderableObjects \X sortedTransparentRenderableObjects
                    \X sortedScreenTextureRenderableObjects}

\* The lists a call of the accessor can return in the current state.
AccessorResults(op) ==
    CASE op = "getSortedOpaqueRenderableObjects" -> sortedOpaqueRenderableObjects
      [] op = "getSortedTransparentRenderableObjects" -> sortedTransparentRenderableObjects
      [] op = "getSortedScreenTextureRenderableObjects" -> sortedScreenTextureRenderableObjects
      [] op = "getRenderableItem2Ds" -> sortedRenderableItem2Ds
      [] op = "getSortedRenderedDepthWriteObjects" -> {r[1] : r \in DepthListResults}
      [] op = "getSortedrenderedOpaqueDepthPrepassObjects" -> {r[2] : r \in DepthListResults}

(***************************************************************************)
(* C15: the six memoized accessors.  A call returns one of the lists the   *)
(* state allows; from then on that list is the only one the accessor can   *)
(* return, and no call of any accessor widens what another one can return: *)
(* within a frame every call returns what the first call returned.  With   *)
(* no camera (after resetForFrame, and in a frame that resolved none) each *)
(* returns an empty list, whatever the buckets hold.                       *)
(***************************************************************************)
C15_AccessorsMemoized ==
    /\ []((ret.op \in SortedAccessors /\ camera = 0) => ret.val = <<>>)
    /\ [][\A called \in SortedAccessors : ret'.op = called =>
            /\ ret'.val \in AccessorResults(called)
            /\ AccessorResults(called)' = {ret'.val}
            /\ \A op \in SortedAccessors : AccessorResults(op)' \subseteq AccessorResults(op)
         ]_vars

\* A camera-less frame with filled buckets and 2D items, and an accessor
\* called in it.
C15_WitnessNoCamera ==
    /\ ret.op \in SortedAccessors
    /\ layerPrepResult.has /\ camera = 0
    /\ opaqueObjects # <<>> /\ transparentObjects # <<>> /\ renderableItem2Ds # <<>>

\* The opaque accessor called when the depth accessors have already filled
\* its list, with all six lists handed out.
C15_Witness ==
    /\ ret.op = "getSortedOpaqueRenderableObjects" /\ ret.val # <<>>
    /\ renderedDepthWriteObjects # <<>> /\ renderedOpaqueDepthPrepassObjects # <<>>
    /\ renderedTransparentObjects # <<>> /\ renderedScreenTextureObjects # <<>>
    /\ renderedItem2Ds # <<>>


\* The three sorted lists one after the other, as the depth partition walks
\* them.
SortedRecords ==
    renderedOpaqueObjects \o renderedTransparentObjects \o renderedScreenTextureObjects

Handles(list) == {list[i] : i \in DOMAIN list}

DepthWriteModeOf(h) == frameObjects[h.obj].depthWriteMode

\* A list holds records of SortedRecords, each once and in that order.
InSortedOrder(list) ==
    /\ \A i \in DOMAIN list : Count(list, list[i]) = 1 /\ Count(SortedRecords, list[i]) = 1
    /\ \A i \in 1 .. Len(list) - 1 :
          IndexOf(SortedRecords, list[i]) < IndexOf(SortedRecords, list[i + 1])

(***************************************************************************)
(* C16: the depth-write partition.  With depth testing enabled, after a    *)
(* call of one of the two depth accessors no record of the sorted lists is *)
(* in both output lists; a record is in renderedOpaqueDepthPrepassObjects  *)
(* iff its mode is OpaquePrePass; it is in renderedDepthWriteObjects iff   *)
(* its mode is Always, or OpaqueOnly and it is in the opaque or the        *)
(* screen-texture sorted list; both output lists hold records of the       *)
(* sorted lists only, in the order opaque, transparent, screen-texture.    *)
(* With depth testing disabled both output lists are empty.                *)
(***************************************************************************)
C16_DepthWritePartition ==
    ret.op \in {"getSortedRenderedDepthWriteObjects",
                "getSortedrenderedOpaqueDepthPrepassObjects"} =>
        IF layer.enableDepthTest
        THEN /\ Handles(renderedDepthWriteObjects)
                    \cap Handles(renderedOpaqueDepthPrepassObjects) = {}
             /\ \A h \in Handles(SortedRecords) :
                  /\ h \in Handles(renderedOpaqueDepthPrepassObjects)
                        <=> DepthWriteModeOf(h) = "OpaquePrePass"
                  /\ h \in Handles(renderedDepthWriteObjects)
                        <=> \/ DepthWriteModeOf(h) = "Always"
                            \/ /\ DepthWriteModeOf(h) = "OpaqueOnly"
                               /\ h \in Handles(renderedOpaqueObjects)
                                        \cup Handles(renderedScreenTextureObjects)
             /\ InSortedOrder(renderedDepthWriteObjects)
             /\ InSortedOrder(renderedOpaqueDepthPrepassObjects)
        ELSE renderedDepthWriteObjects = <<>> /\ renderedOpaqueDepthPrepassObjects = <<>>

\* A partition in which the transparent list contributes to both output
\* lists and holds an OpaqueOnly record that goes to neither.
C16_Witness ==
    /\ ret.op = "getSortedRenderedDepthWriteObjects" /\ layer.enableDepthTest
    /\ renderedOpaqueObjects # <<>> /\ renderedScreenTextureObjects # <<>>
    /\ \E h \in Handles(renderedTransparentObjects) :
            DepthWriteModeOf(h) = "OpaqueOnly" /\ h \notin Handles(ret.val)
    /\ \E h \in Handles(renderedTransparentObjects) : h \in Handles(ret.val)
    /\ \E h \in Handles(renderedTransparentObjects) :
            h \in Handles(renderedOpaqueDepthPrepassObjects)
    /\ \E h \in Handles(renderedOpaqueObjects) :
            h \in Handles(renderedOpaqueDepthPrepassObjects)
    /\ \E h \in Handles(renderedOpaqueObjects) : DepthWriteModeOf(h) = "Never"


\* The records the probes are injected into: those of the opaque and the
\* transparent bucket that receive reflections and are no particles.
ReflectingRecords ==
    {h.obj : h \in Handles(opaqueObjects) \cup Handles(transparentObjects)}
    \cap {o \in DOMAIN frameObjects :
            /\ "ReceivesReflections" \in frameObjects[o].renderableFlags
            /\ frameObjects[o].type # "Particles"}

\* The probes (counted from 0) whose box a record's bounds intersect.
IntersectingProbes(o) ==
    {i \in 0 .. Len(reflectionProbes) - 1 :
        intersects(probeBound(nodes, reflectionProbes[i + 1]), nodeBound(frameObjects[o]))}

\* The distance between the center of a record's bounds and that of probe i.
ProbeDistance(o, i) ==
    distanceToPoint(center(nodeBound(frameObjects[o])),
                    center(probeBound(nodes, reflectionProbes[i + 1])))

(***************************************************************************)
(* C17: after preparation every reflection-receiving non-particle record   *)
(* of the opaque or the transparent bucket carries one probe index: if its *)
(* bounds intersect no probe's box the index is -1, otherwise it is the    *)
(* index of an intersecting probe whose center is nearest, the lowest such *)
(* index when several are equally near.                                    *)
(***************************************************************************)
C17_NearestIntersectingProbe ==
    \A o \in ReflectingRecords :
        IF IntersectingProbes(o) = {}
        THEN frameObjects[o].reflectionProbeIndex = -1
        ELSE /\ frameObjects[o].reflectionProbeIndex \in IntersectingProbes(o)
             /\ \A j \in IntersectingProbes(o) :
                  \/ ProbeDistance(o, frameObjects[o].reflectionProbeIndex) < ProbeDistance(o, j)
                  \/ /\ ProbeDistance(o, frameObjects[o].reflectionProbeIndex) = ProbeDistance(o, j)
                     /\ frameObjects[o].reflectionProbeIndex <= j

\* A frame with a record that intersects no probe, one that a later, nearer
\* probe took over, and one that stayed with the first of two equally near
\* probes.
C17_Witness ==
    /\ JustPrepared
    /\ \E o \in ReflectingRecords : IntersectingProbes(o) = {}
    /\ \E o \in ReflectingRecords : \E j \in IntersectingProbes(o) :
            /\ j < frameObjects[o].reflectionProbeIndex
            /\ ProbeDistance(o, j) > ProbeDistance(o, frameObjects[o].reflectionProbeIndex)
    /\ \E o \in ReflectingRecords : \E j \in IntersectingProbes(o) :
            /\ j > frameObjects[o].reflectionProbeIndex
            /\ ProbeDistance(o, j) = ProbeDistance(o, frameObjects[o].reflectionProbeIndex)

(***************************************************************************)
(* C18: when preparation ends, every probe with a baked texture is         *)
(* registered as a textured reflection-map entry, and every probe          *)
(* registered as a live entry has no texture and is the assigned probe     *)
(* (reflectionProbeIndex) of at least one record.                          *)
(***************************************************************************)
C18_LiveProbesHaveRecords ==
    JustPrepared =>
        /\ \A i \in 0 .. Len(reflectionProbes) - 1 :
              SceneGraph[reflectionProbes[i + 1]].texture =>
                  \E e \in DOMAIN locals.reflectionMapEntries :
                      locals.reflectionMapEntries[e] =
                          [kind |-> "textured", index |-> i, probe |-> reflectionProbes[i + 1]]
        /\ \A e \in DOMAIN locals.reflectionMapEntries :
              locals.reflectionMapEntries[e].kind = "live" =>
                  /\ ~SceneGraph[locals.reflectionMapEntries[e].probe].texture
                  /\ \E o \in ReflectingRecords :
                        frameObjects[o].reflectionProbeIndex
                            = locals.reflectionMapEntries[e].index

\* The calls of the two material preparations.
MaterialCalls == {"prepareDefaultMaterialForRender", "prepareCustomMaterialForRender"}

\* The effective opacity of the call ret describes: the node's opacity,
\* for a default material multiplied by the material's own.
EffectiveOpacity ==
    IF ret.op = "prepareDefaultMaterialForRender"
    THEN (ret.val.inOpacity * ret.val.inMaterial.opacity) \div 1000
    ELSE ret.val.inOpacity

\* Whether something other than the opacity value asks for transparency in
\* the call ret describes: the flags handed in, or the material's blending.
TransparentOtherwise ==
    \/ "HasTransparency" \in ret.val.inExistingFlags
    \/ /\ ret.op = "prepareDefaultMaterialForRender"
       /\ EffectiveOpacity >= QSSG_RENDER_MINIMUM_RENDER_OPACITY
       /\ \/ ret.val.inMaterial.blendMode # "SourceOver"
          \/ ret.val.inMaterial.opacityMap
          \/ ret.val.inMaterial.alphaMode = "Blend"
    \/ /\ ret.op = "prepareCustomMaterialForRender"
       /\ "Blending" \in ret.val.inMaterial.renderFlags

\* C19 as stated: with effective opacity o and minimum e, o <= e gives
\* opacity 0 with HasTransparency and CompletelyTransparent, o >= 1 - e
\* gives opacity exactly 1 with no HasTransparency from the opacity value,
\* e < o < 1 - e gives HasTransparency without CompletelyTransparent, and
\* the returned opacity lies in [0, 1].
C19_OpacityClassesInclusive ==
    ret.op \in MaterialCalls =>
        /\ EffectiveOpacity <= QSSG_RENDER_MINIMUM_RENDER_OPACITY =>
              /\ ret.val.result.opacity = 0
              /\ {"HasTransparency", "CompletelyTransparent"}
                     \subseteq ret.val.result.renderableFlags
        /\ EffectiveOpacity >= 1000 - QSSG_RENDER_MINIMUM_RENDER_OPACITY =>
              /\ ret.val.result.opacity = 1000
              /\ "HasTransparency" \in ret.val.result.renderableFlags
                     <=> TransparentOtherwise
        /\ (EffectiveOpacity > QSSG_RENDER_MINIMUM_RENDER_OPACITY
            /\ EffectiveOpacity < 1000 - QSSG_RENDER_MINIMUM_RENDER_OPACITY) =>
              /\ "HasTransparency" \in ret.val.result.renderableFlags
              /\ "CompletelyTransparent" \notin ret.val.result.renderableFlags
        /\ ret.val.result.opacity >= 0 /\ ret.val.result.opacity <= 1000

\* C19, amended: an effective opacity o strictly below the minimum e gives
\* opacity 0 with HasTransparency and CompletelyTransparent; o strictly
\* above 1 - e gives opacity exactly 1 with no HasTransparency from the
\* opacity value; e <= o <= 1 - e, both ends included, leaves the opacity
\* as it is and gives HasTransparency without CompletelyTransparent; and
\* the returned opacity lies in [0, 1].
C19_OpacityClasses ==
    ret.op \in MaterialCalls =>
        /\ EffectiveOpacity < QSSG_RENDER_MINIMUM_RENDER_OPACITY =>
              /\ ret.val.result.opacity = 0
              /\ {"HasTransparency", "CompletelyTransparent"}
                     \subseteq ret.val.result.renderableFlags
        /\ EffectiveOpacity > 1000 - QSSG_RENDER_MINIMUM_RENDER_OPACITY =>
              /\ ret.val.result.opacity = 1000
              /\ "HasTransparency" \in ret.val.result.renderableFlags
                     <=> TransparentOtherwise
        /\ (EffectiveOpacity >= QSSG_RENDER_MINIMUM_RENDER_OPACITY
            /\ EffectiveOpacity <= 1000 - QSSG_RENDER_MINIMUM_RENDER_OPACITY) =>
              /\ ret.val.result.opacity = EffectiveOpacity
              /\ "HasTransparency" \in ret.val.result.renderableFlags
              /\ "CompletelyTransparent" \notin ret.val.result.renderableFlags
        /\ ret.val.result.opacity >= 0 /\ ret.val.result.opacity <= 1000

\* A call whose effective opacity is exactly the minimum came back with
\* that opacity, transparent but not completely.
C19_Witness ==
    /\ ret.op \in MaterialCalls
    /\ EffectiveOpacity = QSSG_RENDER_MINIMUM_RENDER_OPACITY
    /\ ret.val.result.opacity = QSSG_RENDER_MINIMUM_RENDER_OPACITY
    /\ "HasTransparency" \in ret.val.result.renderableFlags
    /\ "CompletelyTransparent" \notin ret.val.result.renderableFlags

RECURSIVE SelfAndAncestors(_)
\* A node and the nodes above it.
SelfAndAncestors(n) == IF n = 0 THEN {} ELSE {n} \cup SelfAndAncestors(Parent(n))

\* Whether the selected light reaches the node: it has no scope, or its
\* scope is the node or one of the node's ancestors.
Reaches(l, node) ==
    SceneGraph[l.light].scope = 0 \/ SceneGraph[l.light].scope \in SelfAndAncestors(node)

\* Whether one of the selected lights has a scope.
SomeSelectedLightScoped ==
    \E i \in DOMAIN locals.renderableLights :
        SceneGraph[locals.renderableLights[i].light].scope # 0

\* The model and particle entries of the frame.
LitEntries == renderableModels \o renderableParticles

\* C20: after prepareForRender, if some selected light is scoped then
\* globalLights is the selected lights without scope, in selection order,
\* and every model and particle entry's light list is the selected lights,
\* in selection order, that are unscoped or scoped to the node or one of
\* its ancestors, so a light scoped to a subtree is in no list of a node
\* outside it; if none is scoped, globalLights and every entry's list are
\* the full selected list.
C20_ScopedLights ==
    JustPrepared =>
        IF SomeSelectedLightScoped
        THEN /\ globalLights = SelectSeq(locals.renderableLights,
                                         LAMBDA l : SceneGraph[l.light].scope = 0)
             /\ \A i \in DOMAIN LitEntries :
                    /\ LitEntries[i].lights =
                          SelectSeq(locals.renderableLights,
                                    LAMBDA l : Reaches(l, LitEntries[i].node))
                    /\ \A k \in DOMAIN LitEntries[i].lights :
                          Reaches(LitEntries[i].lights[k], LitEntries[i].node)
        ELSE /\ globalLights = locals.renderableLights
             /\ \A i \in DOMAIN LitEntries :
                    LitEntries[i].lights = locals.renderableLights

\* A frame with a scoped light that is in the list of a model inside its
\* subtree, next to an unscoped light, and missing from the list of a model
\* outside it, while a particle system has a list of its own too.
C20_Witness ==
    /\ JustPrepared
    /\ renderableParticles # <<>>
    /\ \E k \in DOMAIN locals.renderableLights :
          LET l == locals.renderableLights[k]
          IN /\ SceneGraph[l.light].scope # 0
             /\ \E i, j \in DOMAIN renderableModels :
                   /\ \E a \in DOMAIN renderableModels[i].lights :
                         renderableModels[i].lights[a] = l
                   /\ \E a \in DOMAIN renderableModels[i].lights :
                         SceneGraph[renderableModels[i].lights[a].light].scope = 0
                   /\ renderableModels[i].node # SceneGraph[l.light].scope
                   /\ \A a \in DOMAIN renderableModels[j].lights :
                         renderableModels[j].lights[a] # l
                   /\ renderableModels[j].lights # <<>>

\* The values compare looks at, in the order it looks at them.
InspectedFields(key) ==
    <<key.m_hasLighting, key.m_alphaMode, key.m_lightCount, calcLightPoint(key, 0)>>

\* The first position at which two field lists differ, 0 if none.
FirstDifference(f1, f2) ==
    IF f1 = f2 THEN 0
    ELSE CHOOSE i \in DOMAIN f1 : f1[i] # f2[i] /\ \A j \in 1 .. i - 1 : f1[j] = f2[j]

\* C21: compare is a strict total order over the fields it inspects: it is
\* irreflexive, asymmetric and transitive, and of two keys that differ in
\* an inspected field exactly one is before the other, the one that is
\* smaller in the first differing field.
C21_CompareStrictTotalOrder ==
    ret.op = "compare" =>
        LET a == ret.val.key1
            b == ret.val.key2
            d == FirstDifference(InspectedFields(a), InspectedFields(b))
        IN /\ ret.val.result = compare(a, b)
           /\ ~compare(a, a)
           /\ ~(compare(a, b) /\ compare(b, a))
           /\ \A c \in ShaderKeys : compare(a, b) /\ compare(b, c) => compare(a, c)
           /\ d # 0 => /\ compare(a, b) # compare(b, a)
                       /\ compare(a, b) <=> InspectedFields(a)[d] < InspectedFields(b)[d]

\* C22: whatever calls of prepareForRender, resetForFrame and the sorted
\* accessors came before, a prepareForRender that gets past its
\* already-prepared guard finds renderedDepthWriteObjects,
\* renderedOpaqueDepthPrepassObjects, globalLights and activePasses empty,
\* so none of its assertions about stale lists fails.
C22_PrepareFindsListsCleared ==
    [][(~alreadyPrepared /\ ret'.op = "prepareForRender" /\ ret'.ran) =>
          /\ renderedDepthWriteObjects = <<>>
          /\ renderedOpaqueDepthPrepassObjects = <<>>
          /\ globalLights = <<>>
          /\ activePasses = <<>>]_vars

\* A prepareForRender got past its guard and filled the global lights and
\* the passes; the depth lists are still to be computed.
C22_Witness ==
    /\ JustPrepared
    /\ globalLights # <<>> /\ activePasses # <<>>
    /\ renderedDepthWriteObjects = <<>> /\ renderedOpaqueDepthPrepassObjects = <<>>

\* How many of the frame's selected lights might cast shadows.
EligibleSelected ==
    Cardinality({i \in DOMAIN locals.renderableLights :
                    mightCastShadows(locals.renderableLights[i].light)})

\* C23: the warning about too many shadow casting lights is given at most
\* once (once given it stays recorded and no later frame gives it again),
\* and only by a frame whose shadow-eligible selected lights are more than
\* QSSG_MAX_NUM_SHADOW_MAPS; a frame with that many or fewer never gives it.
C23_ShadowWarningOnlyWhenExceeded ==
    [][/\ warnings.tooManyShadowLightsWarningShown =>
             warnings'.tooManyShadowLightsWarningShown
       /\ (~warnings.tooManyShadowLightsWarningShown
           /\ warnings'.tooManyShadowLightsWarningShown) =>
             /\ ret'.op = "prepareForRender" /\ ret'.ran
             /\ EligibleSelected' > QSSG_MAX_NUM_SHADOW_MAPS]_vars

\* The input of the level-of-detail computation ret describes, and its
\* distance threshold.
LodInput == ret.val.in

LodDistance(in) ==
    lodDistanceThreshold(in.cameraType, in.distanceMin, in.distanceMin + in.depth)

LodOf(in) ==
    subsetLevelOfDetail(in.lods, in.lodThreshold, in.lodDistanceMultiplier,
                        LodDistance(in), in.modelScale, in.levelOfDetailBias)

StrictlyIncreasing(lods) == \A i, j \in DOMAIN lods : i < j => lods[i] < lods[j]

\* C24: with strictly increasing LOD distances, a positive lodThreshold and
\* a positive bias, and scale, bias and multiplier held fixed, the level of
\* detail does not decrease as the distance threshold grows; it is 0 when
\* the distance threshold is 0, when there are no LODs, when lodThreshold
\* <= 0 or when the bias is <= 0; and it never exceeds the number of levels.
C24_LodMonotone ==
    ret.op = "subsetLevelOfDetail" =>
        /\ ret.val.result = LodOf(LodInput)
        /\ (StrictlyIncreasing(LodInput.lods) /\ LodInput.lodThreshold > 0
            /\ LodInput.levelOfDetailBias > 0) =>
              \A other \in LodSamples :
                  (/\ other.lods = LodInput.lods
                   /\ other.lodThreshold = LodInput.lodThreshold
                   /\ other.lodDistanceMultiplier = LodInput.lodDistanceMultiplier
                   /\ other.modelScale = LodInput.modelScale
                   /\ other.levelOfDetailBias = LodInput.levelOfDetailBias
                   /\ LodDistance(other) >= LodDistance(LodInput))
                  => LodOf(other) >= ret.val.result
        /\ (\/ LodDistance(LodInput) = 0
            \/ LodInput.lods = <<>>
            \/ LodInput.lodThreshold <= 0
            \/ LodInput.levelOfDetailBias <= 0) => ret.val.result = 0
        /\ ret.val.result >= 0 /\ ret.val.result <= Len(LodInput.lods)

\* The records of the frame that belong to a model, and how often the model
\* has a context.
RecordsOf(objects, model) == {k \in DOMAIN objects : objects[k].node = model}

ContextsOf(contexts, model) == {k \in DOMAIN contexts : contexts[k] = model}

\* C25: a model for which loadMesh returns null in a frame gets no record in
\* any bucket and no model context, while every other model of the frame is
\* prepared (it has its context); and when loadMesh returns a mesh for a
\* model that had none in the frame before, the new frame has the model's
\* records and context.
C25_NullMeshDegrades ==
    /\ [](JustPrepared =>
            \A i \in DOMAIN renderableModels :
                LET model == renderableModels[i].node
                IN IF ~loadMesh(model).loaded
                   THEN /\ ~renderableModels[i].mesh.loaded
                        /\ RecordsOf(frameObjects, model) = {}
                        /\ ContextsOf(modelContexts, model) = {}
                        /\ \A k \in DOMAIN opaqueObjects \cup DOMAIN transparentObjects
                                    \cup DOMAIN screenTextureObjects :
                               \A bucket \in {opaqueObjects, transparentObjects,
                                                screenTextureObjects} :
                                  k \in DOMAIN bucket =>
                                     frameObjects[bucket[k].obj].node # model
                   ELSE Cardinality(ContextsOf(modelContexts, model)) = 1)
    /\ [][(~alreadyPrepared /\ ret'.op = "prepareForRender") =>
             \A i \in DOMAIN renderableModels :
                 LET model == renderableModels[i].node
                 IN (/\ ~renderableModels[i].mesh.loaded
                     /\ loadMesh(model).loaded
                     /\ \E j \in DOMAIN renderableModels' :
                            renderableModels'[j].node = model)
                    => /\ RecordsOf(frameObjects', model) # {}
                       /\ ContextsOf(modelContexts', model) # {}]_vars

\* A frame in which model 18 has no mesh and no record while other models
\* have theirs.
C25_Witness ==
    /\ JustPrepared
    /\ 18 \in unresolvedMeshes
    /\ \E i \in DOMAIN renderableModels : renderableModels[i].node = 18
    /\ RecordsOf(frameObjects, 18) = {}
    /\ RecordsOf(frameObjects, 20) # {}
    /\ frameObjects # <<>>

\* Whether a thread holds m_lock, as writer or as reader.
HoldsLock(t) == shaderLibrary.lock.writer = t \/ t \in shaderLibrary.lock.readers

\* Whether a thread is in a call, and whether it can take its next step: it
\* is not about to lock, or the lock can be taken the way it wants it.
InCall(t) == shaderLibrary.calls[t] # <<>>

CanStep(t) ==
    /\ InCall(t)
    /\ \/ currentCall(t).pc # "lock"
       \/ /\ currentCall(t).op \in {"setShaderSource", "getIncludeContents"}
          /\ shaderLibrary.lock = [writer |-> 0, readers |-> {}]
       \/ /\ currentCall(t).op \in {"getShaderSource", "getShaderMetaData"}
          /\ shaderLibrary.lock.writer = 0

\* C26: m_lock is held only while a call is at its map lookup or insert
\* and is released before getIncludeContents goes into resolveIncludeFiles;
\* a thread about to lock never holds the lock already; a writer excludes
\* everybody else; and whenever threads are in calls one of them can take
\* a step, so no interleaving of the four operations deadlocks.
C26_NoLockHeldAcrossRecursion ==
    /\ \A t \in ShaderCalls.threads :
          /\ HoldsLock(t) => InCall(t) /\ currentCall(t).pc = "locked"
          /\ (InCall(t) /\ currentCall(t).pc = "lock") => ~HoldsLock(t)
          /\ \A k \in 1 .. Len(shaderLibrary.calls[t]) - 1 :
                shaderLibrary.calls[t][k].pc = "resolve"
    /\ shaderLibrary.lock.writer # 0 => shaderLibrary.lock.readers = {}
    /\ (\E t \in ShaderCalls.threads : InCall(t))
          => \E t \in ShaderCalls.threads : CanStep(t)

\* One thread holds the lock in a getIncludeContents nested two deep while
\* the other waits to lock.
C26_Witness ==
    \E t, u \in ShaderCalls.threads :
        /\ Len(shaderLibrary.calls[t]) = 3
        /\ currentCall(t).pc = "locked" /\ shaderLibrary.lock.writer = t
        /\ InCall(u) /\ currentCall(u).pc = "lock" /\ ~CanStep(u)

\* C27: in the key of every subset record, the shadow flag of the light at
\* index i of the record's light list is set only if the allocator gave
\* that light a shadow map in this frame, scoped lights or not.
C27_KeyShadowFlagsAgree ==
    JustPrepared =>
        \A k \in DOMAIN frameObjects :
            frameObjects[k].type # "Particles" =>
                \A i \in DOMAIN frameObjects[k].lights :
                    frameObjects[k].materialKey.m_lightShadowFlags[i]
                        => frameObjects[k].lights[i].shadows

RECURSIVE ActiveInOrder(_)
\* The nodes below the given siblings that a depth-first walk reaches when
\* it does not enter a node whose own Active flag is off, in preorder.
ActiveInOrder(cs) ==
    IF cs = <<>> THEN <<>>
    ELSE (IF nodes[cs[1]].active
          THEN <<cs[1]>> \o ActiveInOrder(Children(cs[1]))
          ELSE <<>>)
         \o ActiveInOrder(Tail(cs))

\* This frame's active nodes of the given types, in traversal order.
ActiveOfTypes(types) ==
    SelectSeq(ActiveInOrder(Children(LayerId)), LAMBDA n : SceneGraph[n].type \in types)

Reversed(list) == [i \in DOMAIN list |-> list[Len(list) + 1 - i]]

NodesOf(entries) == [i \in DOMAIN entries |-> entries[i].node]

\* C28: after each prepareForRender that ran, whatever the lists held from
\* the frames before, renderableModels, renderableParticles, cameras, lights
\* and reflectionProbes hold exactly this frame's active nodes of their kind
\* (lights: the enabled ones), once each, in depth-first order, and
\* renderableItem2Ds holds this frame's active 2D items in reverse order.
C28_ListsAreThisFramesNodes ==
    JustPrepared =>
        /\ NodesOf(renderableModels) = ActiveOfTypes({"Model"})
        /\ NodesOf(renderableParticles) = ActiveOfTypes({"Particles"})
        /\ cameras = ActiveOfTypes({"PerspectiveCamera", "OrthographicCamera", "CustomCamera"})
        /\ lights = SelectSeq(ActiveOfTypes({"DirectionalLight", "PointLight", "SpotLight"}),
                              LAMBDA l : SceneGraph[l].enabled)
        /\ reflectionProbes = ActiveOfTypes({"ReflectionProbe"})
        /\ renderableItem2Ds = Reversed(ActiveOfTypes({"Item2D"}))

\* A frame prepared with group A hidden after an earlier frame had visited
\* it and with group B shown: the lists of models, particles, cameras and
\* lights are shorter than the earlier frame's, the 2D items left are more
\* than one, and a disabled light is among the active nodes.
C28_Witness ==
    /\ JustPrepared
    /\ ~nodes[2].active /\ nodes[2].dfsIndex > 0 /\ nodes[3].dfsIndex > 0
    /\ nodes[13].active /\ nodes[24].active
    /\ Len(renderableModels) > 0 /\ Len(renderableParticles) > 0
    /\ Len(renderableItem2Ds) > 1 /\ Len(lights) > 0
    /\ \E l \in Nodes :
          isLight(SceneGraph[l].type) /\ ~SceneGraph[l].enabled /\ nodes[l].globalActive

\* C29: whenever screenTextureObjects is not empty, in the state a
\* prepareForRender leaves and in every later state of the frame,
\* screenMapPass is in activePasses at a position before mainPass; and no
\* record in screenTextureObjects is a particle record.
C29_ScreenTextureConsumersHavePass ==
    /\ screenTextureObjects # <<>> =>
          \E i, j \in DOMAIN activePasses :
              i < j /\ activePasses[i] = "screenMapPass" /\ activePasses[j] = "mainPass"
    /\ \A i \in DOMAIN screenTextureObjects :
          frameObjects[screenTextureObjects[i].obj].type # "Particles"

\* A frame just prepared with a consumer of the screen texture among its
\* records, and with particle records, transparent and opaque, in the other
\* two buckets.
C29_Witness ==
    /\ JustPrepared
    /\ screenTextureObjects # <<>>
    /\ \E i \in DOMAIN transparentObjects :
          frameObjects[transparentObjects[i].obj].type = "Particles"
    /\ \E i \in DOMAIN opaqueObjects :
          frameObjects[opaqueObjects[i].obj].type = "Particles"

\* C30: frustumCullingInline returns, for every list and frustum, a count k
\* with 0 <= k <= size such that the first k entries of the list it leaves
\* all intersect the frustum and the others all do not, and the list it
\* leaves is a permutation of the list it was given: every handle is in it
\* as many times as before.
C30_CullingPartitionsInPlace ==
    (ret.op = "frustumCullingInline" /\ ret.ran) =>
        \E in \in {ret.val} :
            /\ in.out.result \in 0 .. Len(in.renderables)
            /\ Len(in.out.renderables) = Len(in.renderables)
            /\ \A i \in DOMAIN in.out.renderables :
                  (i <= in.out.result) <=> (in.out.renderables[i] \in in.clipFrustum)
            /\ \A h \in 1 .. 3 :
                  Count(in.out.renderables, h) = Count(in.renderables, h)

\* A call on a full-length list that begins with a culled handle and ends
\* with one too, with a visible handle between them: the call has swapped
\* entries and returned a count strictly between 0 and the size.
C30_Witness ==
    /\ ret.op = "frustumCullingInline" /\ ret.ran
    /\ Len(ret.val.renderables) = MaxRenderables
    /\ ret.val.renderables[1] \notin ret.val.clipFrustum
    /\ ret.val.renderables[MaxRenderables] \notin ret.val.clipFrustum
    /\ ret.val.out.result > 0 /\ ret.val.out.result < MaxRenderables
    /\ ret.val.out.renderables # ret.val.renderables

=============================================================================
